---- MODULE Spec2Model ----
(***************************************************************************)
(* Model of the ops coordination engine of scripts/shogun-ops.py: the      *)
(* atomic write primitive, the single-writer lock, the checkin queue, the  *)
(* collector (cmd_collect), the decision store and the supervisor          *)
(* (cmd_supervise).  The durable store is modelled as a set of maps from   *)
(* file names to file contents; every command is a process whose steps are *)
(* the file-system operations of its code.                                 *)
(***************************************************************************)
EXTENDS Integers, Sequences, FiniteSets, TLC

VARIABLES
    aw_target,      \* atomic_write_bytes: content of the target path
    aw_old,         \* atomic_write_bytes: content of the target before any writer ran
    aw,             \* atomic_write_bytes: the writer processes (pc, data, tmp file)
    lock,           \* locks/collect.lock: the pid written into it, or NoLock
    q_checkins,     \* queue/checkins/<worker>/<ts>.yaml
    a_checkins,     \* archive/checkins/<worker>/<ts>[-NNN].yaml
    q_decisions,    \* queue/decisions/<decision_id>.yaml
    a_decisions,    \* archive/decisions/<decision_id>[-NNN].yaml
    orders,         \* queue/orders/<worker>/<order_id>[-NNN].yaml
    state,          \* state.yaml
    config,         \* config.yaml
    col,            \* the collect invocations: pc, exit code and the sweep's locals
    chk,            \* the checkin invocations between their exists test and their write
    sup,            \* the supervise invocations between reading and writing state.yaml
    now             \* the wall clock, in seconds

awVars == <<aw_target, aw_old, aw>>

fsVars == <<q_checkins, a_checkins, q_decisions, a_decisions, orders, state>>

opsVars == <<lock, q_checkins, a_checkins, q_decisions, a_decisions, orders, state,
             config, col, chk, sup, now>>

vars == <<aw_target, aw_old, aw, lock, q_checkins, a_checkins, q_decisions,
          a_decisions, orders, state, config, col, chk, sup, now>>

----------------------------------------------------------------------------
(* Sequence helpers *)

RECURSIVE SeqsUpTo(_, _)
SeqsUpTo(S, n) ==
    IF n = 0 THEN {<<>>}
    ELSE LET shorter == SeqsUpTo(S, n - 1)
         IN  shorter \cup {Append(s, x) : s \in shorter, x \in S}

\* s[:n] of Python for n >= 0.
Take(s, n) == IF n < Len(s) THEN SubSeq(s, 1, n) ELSE s

IsPrefix(s, t) ==
    /\ Len(s) <= Len(t)
    /\ \A i \in 1..Len(s) : s[i] = t[i]

----------------------------------------------------------------------------
(* 4.1 Atomic write: atomic_write_bytes(path, data)                         *)

MaxLen == 2

Bytes == {0, 1}

Contents == SeqsUpTo(Bytes, MaxLen)

\* The content of a path at which no file exists.
Absent == <<-1>>

Writers == {"wa", "wb"}

AwIdle == [pc |-> "idle", data |-> <<>>, tmp |-> Absent]

\* tempfile.mkstemp(prefix=".tmp.", dir=parent): a fresh, empty sibling file
\* (every writer gets a name of its own).
AwMkstemp(w) ==
    /\ aw[w].pc = "idle"
    /\ \E d \in Contents :
         aw' = [aw EXCEPT ![w] = [pc |-> "write", data |-> d, tmp |-> <<>>]]
    /\ UNCHANGED <<aw_target, aw_old, opsVars>>

\* A buggy writer that opens the target itself and writes into it.
AwWriteInPlace(w) ==
    /\ aw[w].pc = "write"
    /\ Len(aw[w].tmp) < Len(aw[w].data)
    /\ aw' = [aw EXCEPT ![w].tmp = Append(@, aw[w].data[Len(@) + 1])]
    /\ aw_target' = Append(aw[w].tmp, aw[w].data[Len(aw[w].tmp) + 1])
    /\ UNCHANGED <<aw_old, opsVars>>

\* fh.write(data); fh.flush(): the bytes reach the temp file one write(2) at a time.
AwWrite(w) ==
    /\ aw[w].pc = "write"
    /\ Len(aw[w].tmp) < Len(aw[w].data)
    /\ aw' = [aw EXCEPT ![w].tmp = Append(@, aw[w].data[Len(@) + 1])]
    /\ UNCHANGED <<aw_target, aw_old, opsVars>>

\* os.fsync(fh.fileno()) and the close at the end of the with block.
AwFsync(w) ==
    /\ aw[w].pc = "write"
    /\ aw[w].tmp = aw[w].data
    /\ aw' = [aw EXCEPT ![w].pc = "replace"]
    /\ UNCHANGED <<aw_target, aw_old, opsVars>>

\* os.replace(tmp_path, path): the rename is one step; the temp name is gone.
AwReplace(w) ==
    /\ aw[w].pc = "replace"
    /\ aw_target' = aw[w].tmp
    /\ aw' = [aw EXCEPT ![w] = [pc |-> "done", data |-> @.data, tmp |-> Absent]]
    /\ UNCHANGED <<aw_old, opsVars>>

\* An OSError inside the try block (disk full, permission): the finally clause
\* unlinks the temp file and the error propagates.
AwError(w) ==
    /\ aw[w].pc \in {"write", "replace"}
    /\ aw' = [aw EXCEPT ![w] = [pc |-> "failed", data |-> @.data, tmp |-> Absent]]
    /\ UNCHANGED <<aw_target, aw_old, opsVars>>

\* The process is killed: nothing more runs, the temp file stays as it is.
AwKill(w) ==
    /\ aw[w].pc \in {"write", "replace"}
    /\ aw' = [aw EXCEPT ![w].pc = "killed"]
    /\ UNCHANGED <<aw_target, aw_old, opsVars>>

----------------------------------------------------------------------------
(* 3. Data model: the records of the durable store                          *)

Workers == {"w1", "w2", "w3"}

\* No decision id / no checkin id / no lock file / a missing mapping key.
NoId == <<>>

NoCid == <<>>

NoLock == "none"

\* Paths and glob patterns are sequences of "/"-separated segments
\* (match_any_glob splits both on "/" and drops the empty segments).
F_src_a == <<"src", "a.py">>

F_src_b == <<"src", "b.py">>

F_docs == <<"docs", "guide.md">>

F_agent == <<".agent", "rules.md">>

\* cmd_supervise: forbidden = [".agent/**", "docs/prd/**", "docs/epics/**"]
ForbiddenFiles == {<<".agent", "**">>, <<"docs", "prd", "**">>, <<"docs", "epics", "**">>}

\* fnmatch.fnmatchcase on one segment: "*" matches every segment, a pattern
\* without wildcard characters matches itself only.
fnmatchcase(seg, pat) == pat = "*" \/ pat = seg

RECURSIVE DropGlobstars(_)
DropGlobstars(pat) ==
    IF pat # <<>> /\ Head(pat) = "**" THEN DropGlobstars(Tail(pat)) ELSE pat

\* A matcher whose "**" between two segments takes one segment at least.
RECURSIVE match_parts_one_or_more(_, _)
match_parts_one_or_more(parts, pat_parts) ==
    IF pat_parts = <<>> THEN parts = <<>>
    ELSE IF Head(pat_parts) = "**"
         THEN LET rest == DropGlobstars(pat_parts)
              IN  \/ rest = <<>>
                  \/ \E i \in 1..Len(parts) :
                        match_parts_one_or_more(SubSeq(parts, i + 1, Len(parts)), rest)
         ELSE /\ parts # <<>>
              /\ fnmatchcase(Head(parts), Head(pat_parts))
              /\ match_parts_one_or_more(Tail(parts), Tail(pat_parts))

RECURSIVE match_parts(_, _)
match_parts(parts, pat_parts) ==
    IF pat_parts = <<>> THEN parts = <<>>
    ELSE IF Head(pat_parts) = "**"
         THEN LET rest == DropGlobstars(pat_parts)
              IN  \/ rest = <<>>
                  \/ \E i \in 0..Len(parts) :
                        match_parts(SubSeq(parts, i + 1, Len(parts)), rest)
         ELSE /\ parts # <<>>
              /\ fnmatchcase(Head(parts), Head(pat_parts))
              /\ match_parts(Tail(parts), Tail(pat_parts))

match_any_glob(path, patterns) ==
    /\ path # <<>>
    /\ path \notin {<<".">>, <<"..">>}
    /\ \E pat \in patterns : pat # <<>> /\ match_parts(path, pat)

\* A blocker text is its leading marker and the rest; has_research_request_blocker
\* and emit_decisions_from_checkin test startswith("調査依頼:").
ResearchMarker == "research-request:"

IsResearch(blocker) == blocker.marker = ResearchMarker

\* decision_dedupe_key / skill_candidate_dedupe_key: SHA-256 of the formatted
\* string, modelled as the tuple of the formatted fields (no hash collisions).
\* The file list of a payload is sorted(set(files)) joined by ",": the set.
NoKey ==
    [kind |-> "", issue |-> 0, worker |-> "", tag |-> "", files |-> {},
     text |-> [marker |-> "", text |-> ""], name |-> "", summary |-> ""]

decision_dedupe_key(kind, issue, worker, payload) ==
    [NoKey EXCEPT !.kind = kind, !.issue = issue, !.worker = worker,
                  !.tag = payload.tag, !.files = payload.files, !.text = payload.text]

skill_candidate_dedupe_key(issue, name, summary) ==
    [NoKey EXCEPT !.kind = "skill_candidate", !.issue = issue,
                  !.name = name, !.summary = summary]

PayloadV1 == [tag |-> "v1", files |-> {}, text |-> [marker |-> "", text |-> ""]]

PayloadFiles(files) ==
    [tag |-> "requested_files", files |-> files, text |-> [marker |-> "", text |-> ""]]

PayloadBlocker(b) == [tag |-> "blocker", files |-> {}, text |-> b]

\* A Decision file (the fields any writer sets; an unset field holds its default).
Decision0 ==
    [decision_id |-> NoId, created_at |-> 0, issue |-> 0, type |-> "",
     dedupe_key |-> NoKey, worker |-> "", checkin_id |-> NoCid, reason |-> "",
     requested_files |-> {}, forbidden_files |-> {}, severity |-> "",
     category |-> "", issue_context |-> FALSE, name |-> "", summary |-> "",
     workers |-> <<>>, submitters |-> <<>>, issues |-> <<>>,
     responses |-> <<>>, resolved_at |-> 0, resolved_by |-> "",
     resolution_summary |-> ""]

\* default_state_yaml()
default_state_yaml ==
    [issues |-> <<>>, blocked |-> <<>>, action_required |-> <<>>,
     skill_candidates_pending |-> <<>>, recent_checkins |-> <<>>]

\* state.yaml before the first command has run: no file at the path.
NoState == [missing |-> TRUE]

\* ensure_ops_layout lines 286-287 run with no other command in between:
\* state.yaml is created with the default content when it does not exist.
ensure_ops_layout(st) == IF st = NoState THEN default_state_yaml ELSE st

\* An IssueEntry just created by ensure_issue_entry: the empty mapping.
Entry0 ==
    [title |-> "", assigned_to |-> "", phase |-> "", progress_percent |-> -1,
     last_checkin |-> NoCid, allowed_files |-> {}, forbidden_files |-> {},
     worktree |-> 0]

ensure_issue_entry(st, issue) ==
    IF issue \in DOMAIN st.issues THEN st.issues[issue] ELSE Entry0

SetEntry(st, issue, entry) ==
    [st EXCEPT !.issues = (issue :> entry) @@ st.issues]

\* record_recent_checkin: insert at the front, keep the first 20.
RecentCap == 20

\* A list that grows at its end and is never trimmed.
record_recent_checkin_append(st, checkin) ==
    [st EXCEPT !.recent_checkins =
        Append(@, [timestamp |-> checkin.timestamp, worker |-> checkin.worker,
                   issue |-> checkin.issue, summary |-> checkin.summary])]

record_recent_checkin(st, checkin) ==
    LET item == [timestamp |-> checkin.timestamp, worker |-> checkin.worker,
                 issue |-> checkin.issue, summary |-> checkin.summary]
        recent == <<item>> \o st.recent_checkins
    IN  [st EXCEPT !.recent_checkins =
            IF Len(recent) > RecentCap THEN SubSeq(recent, 1, RecentCap) ELSE recent]

ensure_blocked_reason(st, issue, reason) ==
    IF \E i \in 1..Len(st.blocked) :
            st.blocked[i].issue = issue /\ st.blocked[i].reason = reason
    THEN st
    ELSE [st EXCEPT !.blocked = Append(@, [issue |-> issue, reason |-> reason])]

----------------------------------------------------------------------------
(* 4.5 Decision store: write_decision, emit_decisions_from_checkin          *)

\* A decision id DEC-<ts>-<issue|global>-<seq> is the tuple <<ts, issue, seq>>,
\* issue 0 standing for "global" (str(decision.get("issue") or "global")).
RECURSIVE NextSeq(_, _, _, _)
NextSeq(q, ts, issue_part, seq) ==
    IF <<ts, issue_part, seq + 1>> \in DOMAIN q
    THEN NextSeq(q, ts, issue_part, seq + 1)
    ELSE seq + 1

\* write_decision(ops_root, decision) in a process whose _DECISION_SEQ is seq,
\* at time ts, on the queue q: the new queue, the new counter, the id.
write_decision(q, seq, ts, decision) ==
    LET s == NextSeq(q, ts, decision.issue, seq)
        id == <<ts, decision.issue, s>>
    IN  [q |-> (id :> [decision EXCEPT !.decision_id = id]) @@ q,
         seq |-> s, id |-> id]

\* existing_decision_dedupe_key_to_path: the first file (sorted by name) per key.
\* Two queue files of one key differ in their ids; the sort is on the file name.
\* In a file name "global" sorts after every issue number.
IssueRank(i) == IF i = 0 THEN 1000 ELSE i

IdLess(a, b) ==
    \/ a[1] < b[1]
    \/ a[1] = b[1] /\ IssueRank(a[2]) < IssueRank(b[2])
    \/ a[1] = b[1] /\ a[2] = b[2] /\ a[3] < b[3]

existing_decision_dedupe_keys(q) ==
    {q[id].dedupe_key : id \in {i \in DOMAIN q : q[i].dedupe_key # NoKey}}

existing_decision_dedupe_key_to_path(q) ==
    [k \in existing_decision_dedupe_keys(q) |->
        CHOOSE id \in DOMAIN q :
            /\ q[id].dedupe_key = k
            /\ \A o \in DOMAIN q : q[o].dedupe_key = k /\ o # id => IdLess(id, o)]

\* The sweep's decision environment: the queue directory, the in-memory key
\* set and key-to-path map, the process's _DECISION_SEQ, and whether an
\* exception has been raised.
EmitApprovalNoDedupe(E, ts, issue, worker, checkin) ==
    LET k == decision_dedupe_key("approval_required", issue, worker, PayloadV1)
        w == write_decision(E.q, E.seq, ts,
                [Decision0 EXCEPT !.created_at = ts, !.issue = issue,
                    !.type = "approval_required", !.dedupe_key = k,
                    !.worker = worker, !.reason = "needs.approval",
                    !.checkin_id = checkin.checkin_id])
    IN  IF checkin.approval
        THEN [E EXCEPT !.q = w.q, !.seq = w.seq, !.keys = @ \cup {k}]
        ELSE E

\* lines 621-639: needs.approval
EmitApproval(E, ts, issue, worker, checkin) ==
    LET k == decision_dedupe_key("approval_required", issue, worker, PayloadV1)
        w == write_decision(E.q, E.seq, ts,
                [Decision0 EXCEPT !.created_at = ts, !.issue = issue,
                    !.type = "approval_required", !.dedupe_key = k,
                    !.worker = worker, !.reason = "needs.approval",
                    !.checkin_id = checkin.checkin_id])
    IN  IF checkin.approval /\ k \notin E.keys
        THEN [E EXCEPT !.q = w.q, !.seq = w.seq, !.keys = @ \cup {k}]
        ELSE E

\* lines 641-670: needs.contract_expansion.requested_files
EmitRequestedFiles(E, ts, issue, worker, checkin) ==
    LET files == checkin.requested_files
        k == decision_dedupe_key("contract_expansion", issue, worker, PayloadFiles(files))
        w == write_decision(E.q, E.seq, ts,
                [Decision0 EXCEPT !.created_at = ts, !.issue = issue,
                    !.type = "contract_expansion", !.dedupe_key = k,
                    !.worker = worker, !.reason = "needs.contract_expansion",
                    !.requested_files = files,
                    !.checkin_id = checkin.checkin_id])
    IN  IF files # {} /\ k \notin E.keys
        THEN [E EXCEPT !.q = w.q, !.seq = w.seq, !.keys = @ \cup {k}]
        ELSE E

\* lines 672-704: one blocker Decision per entry of needs.blockers
RECURSIVE EmitBlockers(_, _, _, _, _, _, _)
EmitBlockers(E, ts, issue, worker, checkin, blockers, issue_context) ==
    IF blockers = <<>> THEN E
    ELSE LET b == Head(blockers)
             k == decision_dedupe_key("blocker", issue, worker, PayloadBlocker(b))
             w == write_decision(E.q, E.seq, ts,
                     [Decision0 EXCEPT !.created_at = ts, !.issue = issue,
                         !.type = "blocker", !.dedupe_key = k,
                         !.worker = worker, !.reason = b.text,
                         !.checkin_id = checkin.checkin_id,
                         !.category = IF IsResearch(b) THEN "research" ELSE "",
                         !.issue_context = IsResearch(b) /\ issue_context])
             E1 == IF k \in E.keys THEN E
                   ELSE [E EXCEPT !.q = w.q, !.seq = w.seq, !.keys = @ \cup {k}]
         IN  EmitBlockers(E1, ts, issue, worker, checkin, Tail(blockers), issue_context)

Pairs(submitters) ==
    {<<submitters[i].worker, submitters[i].checkin_id>> : i \in 1..Len(submitters)}

\* A merge that appends the submitter without looking at the pairs already there.
MergeSubmitterAlways(d, worker, submitter) ==
    LET workers == IF d.workers # <<>> THEN d.workers
                   ELSE IF d.worker # "" THEN <<d.worker>> ELSE <<>>
        submitters == IF d.submitters # <<>> THEN d.submitters
                      ELSE IF d.worker # ""
                           THEN <<[worker |-> d.worker, checkin_id |-> d.checkin_id,
                                   timestamp |-> 0]>>
                           ELSE <<>>
    IN  [d EXCEPT !.workers = Append(workers, worker),
                  !.submitters = Append(submitters, submitter)]

\* lines 741-799: merge a submitter into the queued skill_candidate Decision d.
\* The file is rewritten only when the (worker, checkin_id) pair is new, and
\* request.workers is stored by that same write only.
MergeSubmitter(d, worker, submitter) ==
    LET workers0 == IF d.workers # <<>> THEN d.workers
                    ELSE IF d.worker # "" THEN <<d.worker>> ELSE <<>>
        workers == IF \E i \in 1..Len(workers0) : workers0[i] = worker
                   THEN workers0 ELSE Append(workers0, worker)
        submitters == IF d.submitters # <<>> THEN d.submitters
                      ELSE IF d.worker # ""
                           THEN <<[worker |-> d.worker, checkin_id |-> d.checkin_id,
                                   timestamp |-> 0]>>
                           ELSE <<>>
    IN  IF <<worker, submitter.checkin_id>> \in Pairs(submitters)
        THEN d
        ELSE [d EXCEPT !.workers = workers,
                       !.submitters = Append(submitters, submitter)]

\* lines 706-822: candidates.skills
RECURSIVE EmitSkills(_, _, _, _, _, _)
EmitSkills(E, ts, issue, worker, checkin, skills) ==
    IF skills = <<>> \/ E.err THEN E
    ELSE LET it == Head(skills)
             k == skill_candidate_dedupe_key(issue, it.name, it.summary)
             submitter == [worker |-> worker, checkin_id |-> checkin.checkin_id,
                           timestamp |-> checkin.timestamp]
             w == write_decision(E.q, E.seq, ts,
                     [Decision0 EXCEPT !.created_at = ts, !.issue = issue,
                         !.type = "skill_candidate", !.dedupe_key = k,
                         !.worker = worker, !.workers = <<worker>>,
                         !.submitters = <<submitter>>, !.reason = it.name,
                         !.name = it.name, !.summary = it.summary,
                         !.checkin_id = checkin.checkin_id])
             E1 == IF it.name = "" \/ it.summary = ""
                   THEN [E EXCEPT !.err = TRUE]
                   ELSE IF k \in E.keys
                   THEN IF k \notin DOMAIN E.paths THEN E
                        ELSE IF E.q[E.paths[k]].type # "skill_candidate"
                        THEN [E EXCEPT !.err = TRUE]
                        ELSE [E EXCEPT !.q = [@ EXCEPT ![E.paths[k]] =
                                         MergeSubmitter(@, worker, submitter)]]
                   ELSE [E EXCEPT !.q = w.q, !.seq = w.seq, !.keys = @ \cup {k},
                                  !.paths = (k :> w.id) @@ @]
         IN  EmitSkills(E1, ts, issue, worker, checkin, Tail(skills))

emit_decisions_from_checkin(E, ts, issue, worker, checkin, issue_context) ==
    LET E1 == EmitApproval(E, ts, issue, worker, checkin)
        E2 == EmitRequestedFiles(E1, ts, issue, worker, checkin)
        E3 == EmitBlockers(E2, ts, issue, worker, checkin, checkin.blockers, issue_context)
    IN  EmitSkills(E3, ts, issue, worker, checkin, checkin.skills)

----------------------------------------------------------------------------
(* 4.7 Decision response protocol: apply_research_response                  *)

\* An archive name chosen without a look at the directory: always the base name.
unique_path_base_name(taken) == 0

\* unique_path_with_suffix: the path itself (suffix 0) when free, else the
\* first free -001, -002, ... ; taken is the set of suffixes in use.
unique_path_with_suffix(taken) ==
    CHOOSE s \in 0..Cardinality(taken) :
        s \notin taken /\ \A r \in 0..(s - 1) : r \in taken

DecisionSuffixes(a, id) == {n[2] : n \in {m \in DOMAIN a : m[1] = id}}

\* find_decision_path_anywhere: <queue>/<id>.yaml, then <archive>/<id>.yaml,
\* then the first file of queue and archive whose decision_id field is id.
find_decision_path_anywhere(q, a, id) ==
    IF id \in DOMAIN q THEN [dir |-> "queue", id |-> id, suffix |-> 0]
    ELSE IF <<id, 0>> \in DOMAIN a THEN [dir |-> "archive", id |-> id, suffix |-> 0]
    ELSE IF \E o \in DOMAIN q : q[o].decision_id = id
    THEN [dir |-> "queue",
          id |-> CHOOSE o \in DOMAIN q :
                    /\ q[o].decision_id = id
                    /\ \A x \in DOMAIN q : q[x].decision_id = id /\ x # o => IdLess(o, x),
          suffix |-> 0]
    ELSE IF \E n \in DOMAIN a : a[n].decision_id = id
    THEN LET n == CHOOSE m \in DOMAIN a :
                    /\ a[m].decision_id = id
                    /\ \A x \in DOMAIN a : a[x].decision_id = id /\ x # m =>
                          \/ IdLess(m[1], x[1])
                          \/ m[1] = x[1] /\ m[2] < x[2]
         IN  [dir |-> "archive", id |-> n[1], suffix |-> n[2]]
    ELSE [dir |-> "none", id |-> NoId, suffix |-> 0]

\* A response that is appended without a look at the checkin_ids recorded.
RecordResponseAppend(d, checkin) ==
    LET response == [timestamp |-> checkin.timestamp, worker |-> checkin.worker,
                     checkin_id |-> checkin.checkin_id, summary |-> checkin.summary]
    IN  [d EXCEPT !.responses = Append(@, response),
                  !.resolved_at = IF @ = 0 THEN response.timestamp ELSE @,
                  !.resolved_by = IF @ = "" THEN response.worker ELSE @,
                  !.resolution_summary = IF @ = "" THEN response.summary ELSE @]

\* A response that always overwrites the resolution fields (last responder wins).
RecordResponseLastWins(d, checkin) ==
    LET response == [timestamp |-> checkin.timestamp, worker |-> checkin.worker,
                     checkin_id |-> checkin.checkin_id, summary |-> checkin.summary]
    IN  [d EXCEPT !.responses = Append(@, response),
                  !.resolved_at = response.timestamp,
                  !.resolved_by = response.worker,
                  !.resolution_summary = response.summary]

\* lines 937-973: the Decision d with the checkin's response recorded.
RecordResponse(d, checkin) ==
    LET response == [timestamp |-> checkin.timestamp, worker |-> checkin.worker,
                     checkin_id |-> checkin.checkin_id, summary |-> checkin.summary]
        responses == IF \E i \in 1..Len(d.responses) :
                            d.responses[i].checkin_id = response.checkin_id
                     THEN d.responses
                     ELSE Append(d.responses, response)
    IN  [d EXCEPT !.responses = responses,
                  !.resolved_at = IF @ = 0 THEN response.timestamp ELSE @,
                  !.resolved_by = IF @ = "" THEN response.worker ELSE @,
                  !.resolution_summary = IF @ = "" THEN response.summary ELSE @]

\* A response that is recorded in place, the Decision staying in the queue.
ArchiveResponded_Stay(q, a, loc, d) ==
    IF loc.dir = "queue"
    THEN [q |-> [q EXCEPT ![loc.id] = d], a |-> a, err |-> FALSE]
    ELSE [q |-> q, a |-> [a EXCEPT ![<<loc.id, loc.suffix>>] = d], err |-> FALSE]

\* lines 975-987: write the Decision back; when it lives in the queue, move it
\* to the archive under a name no archive file has.
ArchiveResponded(q, a, loc, d) ==
    IF loc.dir = "queue"
    THEN LET s == unique_path_with_suffix(DecisionSuffixes(a, loc.id))
         IN  [q |-> [o \in DOMAIN q \ {loc.id} |-> q[o]],
              a |-> (<<loc.id, s>> :> d) @@ a,
              err |-> FALSE]
    ELSE [q |-> q, a |-> [a EXCEPT ![<<loc.id, loc.suffix>>] = d], err |-> FALSE]

\* A response recorded on whatever Decision the id names, without the tests
\* of lines 903-935.
apply_research_response_unchecked(q, a, decision_id, checkin) ==
    LET loc == find_decision_path_anywhere(q, a, decision_id)
        d == IF loc.dir = "queue" THEN q[loc.id]
             ELSE IF loc.dir = "archive" THEN a[<<loc.id, loc.suffix>>]
             ELSE Decision0
    IN  IF loc.dir = "none" \/ checkin.checkin_id = NoCid
        THEN [q |-> q, a |-> a, err |-> TRUE]
        ELSE ArchiveResponded(q, a, loc, RecordResponse(d, checkin))

\* apply_research_response(ops_root, decision_id, checkin): the queue and the
\* archive afterwards, or err when it raises (nothing written).
apply_research_response(q, a, decision_id, checkin) ==
    LET loc == find_decision_path_anywhere(q, a, decision_id)
        d == IF loc.dir = "queue" THEN q[loc.id]
             ELSE IF loc.dir = "archive" THEN a[<<loc.id, loc.suffix>>]
             ELSE Decision0
    IN  IF \/ loc.dir = "none"
           \/ d.type # "blocker"
           \/ d.category # "research"
           \/ (d.issue # 0 /\ d.issue # checkin.issue)
           \/ checkin.checkin_id = NoCid
        THEN [q |-> q, a |-> a, err |-> TRUE]
        ELSE ArchiveResponded(q, a, loc, RecordResponse(d, checkin))

----------------------------------------------------------------------------
(* 4.3 Checkin queue: cmd_checkin                                           *)

\* lines 1963-1991: the checkin object written for the command's arguments.
checkin_obj(args) ==
    [checkin_id |-> <<args.worker, args.issue, args.ts>>,
     timestamp |-> args.ts, worker |-> args.worker, issue |-> args.issue,
     phase |-> args.phase, progress_percent |-> args.percent,
     summary |-> args.summary, files_changed |-> args.files_changed,
     approval |-> args.needs_approval, requested_files |-> args.request_file,
     blockers |-> args.blocker, skills |-> args.skills,
     respond_to |-> args.respond_to]

\* out_path = queue/checkins/<worker>/<ts_compact>.yaml
checkin_path(args) == <<args.worker, args.ts>>

\* The number of checkin files written since second 1 that are still on disk.
NumCheckins ==
    Cardinality({x \in DOMAIN q_checkins : x[2] >= 1})
        + Cardinality({x \in DOMAIN a_checkins : x[2] >= 1})

MaxCheckins == 3

ChkIdle == [pc |-> "idle", path |-> <<>>, obj |-> <<>>]

\* cmd_checkin run alone: the exists test of line 1907 and the write of line
\* 1994 with no other checkin command in between.
cmd_checkin(args) ==
    /\ NumCheckins < MaxCheckins
    /\ checkin_path(args) \notin DOMAIN q_checkins
    /\ q_checkins' = (checkin_path(args) :> checkin_obj(args)) @@ q_checkins
    /\ state' = ensure_ops_layout(state)
    /\ UNCHANGED <<lock, a_checkins, q_decisions, a_decisions, orders,
                   config, col, chk, sup, now, awVars>>

\* cmd_checkin up to line 1908: the command fails when the file exists,
\* otherwise it goes on to build the object.
cmd_checkin_test(c, args) ==
    /\ chk[c].pc = "idle"
    /\ NumCheckins < MaxCheckins
    /\ checkin_path(args) \notin DOMAIN q_checkins
    /\ chk' = [chk EXCEPT ![c] = [pc |-> "write", path |-> checkin_path(args),
                                  obj |-> checkin_obj(args)]]
    /\ state' = ensure_ops_layout(state)
    /\ UNCHANGED <<lock, q_checkins, a_checkins, q_decisions, a_decisions, orders,
                   config, col, sup, now, awVars>>

\* cmd_checkin line 1994: atomic_write_yaml(out_path, obj), whose os.replace
\* puts the new file at out_path whatever is there.
cmd_checkin_write(c) ==
    /\ chk[c].pc = "write"
    /\ q_checkins' = (chk[c].path :> chk[c].obj) @@ q_checkins
    /\ chk' = [chk EXCEPT ![c] = ChkIdle]
    /\ UNCHANGED <<lock, a_checkins, q_decisions, a_decisions, orders, state,
                   config, col, sup, now, awVars>>

----------------------------------------------------------------------------
(* 4.2 Single-writer lock and 4.3 Collector: cmd_collect                    *)

Procs == {"p1", "p2"}

MaxCollect == 2

\* A collect process: pc and exit code, the number of its invocations so
\* far, the locals of cmd_collect (items, state, dedupe_keys, dedupe_paths,
\* the module's _DECISION_SEQ, the loop index), and the state.yaml content
\* that the invocation's ensure_ops_layout replaced (NoState: none).
ColIdle ==
    [pc |-> "idle", rc |-> 0, runs |-> 0, items |-> <<>>, st |-> default_state_yaml,
     keys |-> {}, paths |-> <<>>, seq |-> 0, idx |-> 0, replaced |-> NoState]

InSweep(p) == col[p].pc \in {"load", "pass1", "pass2", "write", "archive", "release"}

\* validate_worker_id: ^[A-Za-z0-9_-]+$ ; the ids below are the ones that fail.
InvalidWorkerIds == {"", "bad id"}

\* A validation that lets every directory name pass.
validate_worker_id_lax(v) == TRUE

validate_worker_id(v) == v \notin InvalidWorkerIds

\* list_checkin_paths: worker directories sorted, then file names sorted.
WorkerRank(w) ==
    CASE w = "w1" -> 1 [] w = "w2" -> 2 [] w = "w3" -> 3 [] OTHER -> 0

PathLess(x, y) ==
    \/ WorkerRank(x[1]) < WorkerRank(y[1])
    \/ x[1] = y[1] /\ x[2] < y[2]

RECURSIVE SortPaths(_)
SortPaths(S) ==
    IF S = {} THEN <<>>
    ELSE LET m == CHOOSE x \in S : \A y \in S \ {x} : PathLess(x, y)
         IN  <<m>> \o SortPaths(S \ {m})

list_checkin_paths(qc) == SortPaths(DOMAIN qc)

\* build_action_required_index_from_decisions: one item per queue file,
\* sorted by (created_at, decision_id), latest first.
ItemLess(x, y) ==
    \/ x.created_at < y.created_at
    \/ x.created_at = y.created_at /\ IdLess(x.decision_id, y.decision_id)

RECURSIVE SortDescending(_)
SortDescending(S) ==
    IF S = {} THEN <<>>
    ELSE LET m == CHOOSE x \in S : \A y \in S \ {x} : ItemLess(y, x)
         IN  <<m>> \o SortDescending(S \ {m})

build_action_required_index_from_decisions(q) ==
    SortDescending({[decision_id |-> q[id].decision_id,
                     created_at |-> q[id].created_at,
                     issue |-> q[id].issue,
                     worker |-> IF q[id].type = "skill_candidate" /\ q[id].workers # <<>>
                                THEN q[id].workers
                                ELSE IF q[id].worker = "" THEN <<>> ELSE <<q[id].worker>>,
                     kind |-> q[id].type,
                     summary |-> q[id].reason] : id \in DOMAIN q})

build_skill_candidates_index_from_decisions(q) ==
    SortDescending({[decision_id |-> q[id].decision_id,
                     created_at |-> q[id].created_at,
                     name |-> q[id].name,
                     summary |-> q[id].summary] :
                        id \in {i \in DOMAIN q : q[i].type = "skill_candidate"}})

\* A collector that trusts the indexes cached in state.yaml.
RebuildIndexesCached(st, q) == st

RebuildIndexes(st, q) ==
    [st EXCEPT !.action_required = build_action_required_index_from_decisions(q),
               !.skill_candidates_pending = build_skill_candidates_index_from_decisions(q)]

\* os.open(lock_path, O_CREAT | O_EXCL | O_WRONLY): whether the call creates
\* the file, given the lock file lk found at the path.
os_open_no_excl(lk) == TRUE

os_open_excl(lk) == lk = NoLock

\* The process exits with code rc: its locals are gone.
ColExit(p, rc) == [ColIdle EXCEPT !.rc = rc, !.runs = col[p].runs]

\* cmd_collect lines 991-992 up to the os.path.exists(state_path) test of
\* ensure_ops_layout (line 286): with the file there nothing is written.
CollectInvoke(p) ==
    /\ col[p].pc = "idle"
    /\ col[p].runs < MaxCollect
    /\ col' = [col EXCEPT ![p] =
                  [ColIdle EXCEPT !.pc = IF state = NoState THEN "layout" ELSE "acquire",
                                  !.runs = col[p].runs + 1]]
    /\ UNCHANGED <<lock, fsVars, config, chk, sup, now, awVars>>

\* ensure_ops_layout line 287, reached when the test found no state.yaml:
\* atomic_write_yaml(state_path, default_state_yaml()) replaces whatever is
\* at the path by now.
CollectLayoutWrite(p) ==
    /\ col[p].pc = "layout"
    /\ state' = default_state_yaml
    /\ col' = [col EXCEPT ![p].pc = "acquire", ![p].replaced = state]
    /\ UNCHANGED <<lock, q_checkins, a_checkins, q_decisions, a_decisions, orders,
                   config, chk, sup, now, awVars>>

\* acquire_lock: on FileExistsError the RuntimeError leaves cmd_collect before
\* its try block (exit code 1, no release); otherwise the pid is written.
acquire_lock(p) ==
    /\ col[p].pc = "acquire"
    /\ IF os_open_excl(lock)
       THEN /\ lock' = p
            /\ col' = [col EXCEPT ![p].pc = "load"]
       ELSE /\ lock' = lock
            /\ col' = [col EXCEPT ![p] = ColExit(p, 1)]
    /\ UNCHANGED <<fsVars, config, chk, sup, now, awVars>>

\* A loader that believes the worker field of the file.
LoadItemTrusting(qc, path) ==
    [path |-> path, checkin |-> qc[path], issue |-> qc[path].issue]

\* lines 1018-1030: one item per pending file, the worker taken from the
\* directory name.
LoadItem(qc, path) ==
    [path |-> path, checkin |-> [qc[path] EXCEPT !.worker = path[1]],
     issue |-> qc[path].issue]

LoadItems(qc) ==
    LET paths == list_checkin_paths(qc)
    IN  [i \in 1..Len(paths) |-> LoadItem(qc, paths[i])]

\* lines 997-1030: list the checkins, read state.yaml; with no checkin pending
\* rebuild the indexes and finish; else index the queued Decisions and load
\* and validate every checkin.
CollectLoad(p) ==
    /\ col[p].pc = "load"
    /\ IF DOMAIN q_checkins = {}
       THEN /\ state' = RebuildIndexes(state, q_decisions)
            /\ col' = [col EXCEPT ![p].pc = "release", ![p].rc = 0]
       ELSE /\ state' = state
            /\ IF \E path \in DOMAIN q_checkins :
                     ~validate_worker_id(path[1]) \/ q_checkins[path].issue \notin Int
               THEN col' = [col EXCEPT ![p].pc = "release", ![p].rc = 1]
               ELSE col' = [col EXCEPT ![p].pc = "pass1", ![p].idx = 1,
                               ![p].items = LoadItems(q_checkins),
                               ![p].st = state,
                               ![p].paths = existing_decision_dedupe_key_to_path(q_decisions),
                               ![p].keys = existing_decision_dedupe_keys(q_decisions)]
    /\ UNCHANGED <<lock, q_checkins, a_checkins, q_decisions, a_decisions, orders,
                   config, chk, sup, now, awVars>>

\* lines 1084-1096: the changed files outside allowed_files (when it is not
\* empty) and the ones matching forbidden_files.
\* An enforcement that never looks at forbidden_files.
ForbiddenHitsIgnored(entry, checkin) == {}

ForbiddenHits(entry, checkin) ==
    {f \in checkin.files_changed : match_any_glob(f, entry.forbidden_files)}

ViolatingFiles(entry, checkin) ==
    (IF entry.allowed_files # {}
     THEN {f \in checkin.files_changed : ~match_any_glob(f, entry.allowed_files)}
     ELSE {}) \cup ForbiddenHits(entry, checkin)

\* lines 1037-1051: the IssueEntry updated from the checkin.
UpdateEntry(entry, checkin) ==
    [entry EXCEPT
        !.assigned_to = IF checkin.worker # "" THEN checkin.worker ELSE @,
        !.phase = IF checkin.phase # "" THEN checkin.phase
                  ELSE IF @ # "" THEN @ ELSE "backlog",
        !.progress_percent = IF checkin.progress_percent # -1
                             THEN checkin.progress_percent
                             ELSE IF @ # -1 THEN @ ELSE 0,
        !.last_checkin = checkin.checkin_id]

\* lines 1098-1134: contract enforcement. E is the decision environment, st
\* the in-memory state with the entry already updated.
EnforceContract(E, st, ts, issue, checkin) ==
    LET entry == st.issues[issue]
        requested == ViolatingFiles(entry, checkin)
        hits == ForbiddenHits(entry, checkin)
        k == decision_dedupe_key("contract_expansion", issue, checkin.worker,
                                 PayloadFiles(requested))
        w == write_decision(E.q, E.seq, ts,
                [Decision0 EXCEPT !.created_at = ts, !.issue = issue,
                    !.type = "contract_expansion", !.dedupe_key = k,
                    !.worker = checkin.worker, !.reason = "contract violation",
                    !.requested_files = requested,
                    !.severity = IF hits # {} THEN "major" ELSE "normal",
                    !.forbidden_files = hits,
                    !.checkin_id = checkin.checkin_id])
        st1 == ensure_blocked_reason(
                   SetEntry(st, issue, [entry EXCEPT !.phase = "blocked"]),
                   issue, "contract_violation")
        st2 == IF hits # {}
               THEN ensure_blocked_reason(st1, issue, "contract_forbidden_violation")
               ELSE st1
    IN  IF requested = {}
        THEN [E |-> E, st |-> st]
        ELSE [E |-> IF k \in E.keys THEN E
                    ELSE [E EXCEPT !.q = w.q, !.seq = w.seq, !.keys = @ \cup {k}],
              st |-> st2]

has_research_request_blocker(checkin) ==
    \E i \in 1..Len(checkin.blockers) : IsResearch(checkin.blockers[i])

\* One iteration of the pass-1 loop (lines 1033-1146) for a normal checkin;
\* gh_ok is whether fetch_issue_context_for_research succeeds.
Pass1Item(E, st, ts, it, gh_ok) ==
    LET checkin == it.checkin
        st1 == SetEntry(st, it.issue, UpdateEntry(ensure_issue_entry(st, it.issue), checkin))
        c == EnforceContract(E, st1, ts, it.issue, checkin)
        E2 == emit_decisions_from_checkin(c.E, ts, it.issue, checkin.worker, checkin, gh_ok)
    IN  IF has_research_request_blocker(checkin) /\ ~gh_ok
        THEN [E |-> [E EXCEPT !.err = TRUE], st |-> st1]
        ELSE [E |-> E2,
              st |-> IF E2.err THEN c.st ELSE record_recent_checkin(c.st, checkin)]

ColEnv(p) ==
    [q |-> q_decisions, keys |-> col[p].keys, paths |-> col[p].paths,
     seq |-> col[p].seq, err |-> FALSE]

\* The loop index after item idx, and the pc once the loop is over.
Advance(r, nextpc) ==
    IF r.idx >= Len(r.items)
    THEN [r EXCEPT !.pc = nextpc, !.idx = 1]
    ELSE [r EXCEPT !.idx = @ + 1]

\* Pass 1, one item: checkins that carry respond_to are skipped.
CollectPass1(p) ==
    /\ col[p].pc = "pass1"
    /\ LET it == col[p].items[col[p].idx]
       IN  IF it.checkin.respond_to # NoId
           THEN /\ col' = [col EXCEPT ![p] = Advance(@, "pass2")]
                /\ q_decisions' = q_decisions
           ELSE \E gh_ok \in IF has_research_request_blocker(it.checkin)
                             THEN BOOLEAN ELSE {TRUE} :
                  LET r == Pass1Item(ColEnv(p), col[p].st, now, it, gh_ok)
                  IN  /\ q_decisions' = r.E.q
                      /\ col' = [col EXCEPT ![p] =
                            IF r.E.err
                            THEN [@ EXCEPT !.pc = "release", !.rc = 1]
                            ELSE Advance([@ EXCEPT !.st = r.st, !.keys = r.E.keys,
                                             !.paths = r.E.paths, !.seq = r.E.seq],
                                         "pass2")]
    /\ UNCHANGED <<lock, q_checkins, a_checkins, a_decisions, orders, state,
                   config, chk, sup, now, awVars>>

\* A pass 2 that also updates the IssueEntry from the responding checkin.
CollectPass2Mutating(p) ==
    /\ col[p].pc = "pass2"
    /\ LET it == col[p].items[col[p].idx]
           r == apply_research_response(q_decisions, a_decisions,
                                        it.checkin.respond_to, it.checkin)
           st1 == SetEntry(col[p].st, it.issue,
                           UpdateEntry(ensure_issue_entry(col[p].st, it.issue), it.checkin))
       IN  IF it.checkin.respond_to = NoId
           THEN /\ col' = [col EXCEPT ![p] = Advance(@, "write")]
                /\ UNCHANGED <<q_decisions, a_decisions>>
           ELSE /\ q_decisions' = r.q
                /\ a_decisions' = r.a
                /\ col' = [col EXCEPT ![p] =
                      IF r.err
                      THEN [@ EXCEPT !.pc = "release", !.rc = 1]
                      ELSE Advance([@ EXCEPT !.st = record_recent_checkin(st1, it.checkin)],
                                   "write")]
    /\ UNCHANGED <<lock, q_checkins, a_checkins, orders, state,
                   config, chk, sup, now, awVars>>

\* Pass 2, one item (lines 1149-1155): the out-of-band responses.
CollectPass2(p) ==
    /\ col[p].pc = "pass2"
    /\ LET it == col[p].items[col[p].idx]
           r == apply_research_response(q_decisions, a_decisions,
                                        it.checkin.respond_to, it.checkin)
       IN  IF it.checkin.respond_to = NoId
           THEN /\ col' = [col EXCEPT ![p] = Advance(@, "write")]
                /\ UNCHANGED <<q_decisions, a_decisions>>
           ELSE /\ q_decisions' = r.q
                /\ a_decisions' = r.a
                /\ col' = [col EXCEPT ![p] =
                      IF r.err
                      THEN [@ EXCEPT !.pc = "release", !.rc = 1]
                      ELSE Advance([@ EXCEPT !.st = record_recent_checkin(@, it.checkin)],
                                   "write")]
    /\ UNCHANGED <<lock, q_checkins, a_checkins, orders, state,
                   config, chk, sup, now, awVars>>

\* lines 1157-1165: rebuild the indexes from the queue and write state.yaml.
CollectWriteState(p) ==
    /\ col[p].pc = "write"
    /\ state' = RebuildIndexes(col[p].st, q_decisions)
    /\ col' = [col EXCEPT ![p].pc = "archive", ![p].idx = 1]
    /\ UNCHANGED <<lock, q_checkins, a_checkins, q_decisions, a_decisions, orders,
                   config, chk, sup, now, awVars>>

CheckinSuffixes(ac, path) ==
    {n[3] : n \in {m \in DOMAIN ac : m[1] = path[1] /\ m[2] = path[2]}}

\* lines 1167-1173, one item: os.replace(path, unique_path_with_suffix(archive_base))
\* moves the file that is at the path now.
CollectArchive(p) ==
    /\ col[p].pc = "archive"
    /\ LET path == col[p].items[col[p].idx].path
           s == unique_path_with_suffix(CheckinSuffixes(a_checkins, path))
       IN  /\ path \in DOMAIN q_checkins
           /\ a_checkins' = (<<path[1], path[2], s>> :> q_checkins[path]) @@ a_checkins
           /\ q_checkins' = [x \in DOMAIN q_checkins \ {path} |-> q_checkins[x]]
    /\ col' = [col EXCEPT ![p] = Advance([@ EXCEPT !.rc = 0], "release")]
    /\ UNCHANGED <<lock, q_decisions, a_decisions, orders, state,
                   config, chk, sup, now, awVars>>

\* A release placed at the end of the try block: it runs only for a sweep that
\* returns normally.
CollectReleaseOnSuccess(p) ==
    /\ col[p].pc = "release"
    /\ lock' = IF col[p].rc = 0 THEN NoLock ELSE lock
    /\ col' = [col EXCEPT ![p] = ColExit(p, col[p].rc)]
    /\ UNCHANGED <<fsVars, config, chk, sup, now, awVars>>

\* finally: lock.release() closes the descriptor and unlinks the lock path;
\* the process exits with its code.
CollectRelease(p) ==
    /\ col[p].pc = "release"
    /\ lock' = NoLock
    /\ col' = [col EXCEPT ![p] = ColExit(p, col[p].rc)]
    /\ UNCHANGED <<fsVars, config, chk, sup, now, awVars>>

\* An exception that is no RuntimeError (KeyboardInterrupt, OSError of a file
\* operation) raised between two steps of the sweep: the finally clause runs.
CollectInterrupt(p) ==
    /\ col[p].pc \in {"load", "pass1", "pass2", "write", "archive"}
    /\ col' = [col EXCEPT ![p].pc = "release", ![p].rc = 1]
    /\ UNCHANGED <<lock, fsVars, config, chk, sup, now, awVars>>

\* SIGKILL: the process is gone, no finally clause runs, the lock file stays.
CollectKill(p) ==
    /\ col[p].pc \in {"acquire", "load", "pass1", "pass2", "write", "archive", "release"}
    /\ col' = [col EXCEPT ![p] = [ColExit(p, 137) EXCEPT !.pc = "killed"]]
    /\ UNCHANGED <<lock, fsVars, config, chk, sup, now, awVars>>

----------------------------------------------------------------------------
(* 4.6 Supervisor: cmd_supervise                                            *)

\* The issues of the tracker that a sweep may be given as candidates, and
\* the longest candidate list.
SupIssues == {1, 2, 3, 4}

MaxCands == 3

MaxSupervise == 2

\* extract_allowed_files(toplevel, gh_repo, n): the change targets declared in
\* the body of issue n; none for an issue that declares no target (the
\* extractor fails or prints nothing: both end in missing_change_targets).
extract_allowed_files(n) ==
    CASE n = 1 -> {F_src_a}
      [] n = 2 -> {F_src_b}
      [] n = 3 -> {F_src_a, F_docs}
      [] OTHER -> {}

\* run_worktree_check: the exit code of the external overlap checker, 3 when
\* two of the issues handed over share a declared target, 0 when none do.
run_worktree_check(issue_numbers) ==
    IF \E i, j \in 1..Len(issue_numbers) :
          /\ i < j
          /\ extract_allowed_files(issue_numbers[i])
                \cap extract_allowed_files(issue_numbers[j]) # {}
    THEN 3 ELSE 0

\* config.yaml: policy.parallel.enabled, policy.parallel.max_workers, workers.
default_config_yaml ==
    [enabled |-> TRUE, max_workers |-> 3, workers |-> <<"w1", "w2", "w3">>]

\* lines 1548-1554: the ceiling the sweep works with.
max_workers(cfg) ==
    LET m == IF cfg.max_workers = 0 THEN 1 ELSE cfg.max_workers
    IN  IF ~cfg.enabled THEN 1 ELSE IF m < 1 THEN 1 ELSE m

\* lines 1556-1571
worker_ids(cfg) == SelectSeq(cfg.workers, validate_worker_id)

invalid_worker_ids(cfg) ==
    LET Bad(w) == ~validate_worker_id(w) IN SelectSeq(cfg.workers, Bad)

\* lines 1631-1640
BusyPhases == {"estimating", "implementing", "reviewing"}

busy_workers(st) ==
    {st.issues[n].assigned_to :
        n \in {m \in DOMAIN st.issues : /\ st.issues[m].assigned_to # ""
                                        /\ st.issues[m].phase \in BusyPhases}}

\* A supervisor that takes every configured worker for idle.
idle_workers_all(ids, busy) == ids

idle_workers(ids, busy) ==
    LET Idle(w) == w \notin busy IN SelectSeq(ids, Idle)

effective_max_workers(mw, idle) == IF mw < Len(idle) THEN mw ELSE Len(idle)

\* The sweep's working record: the in-memory state, the decision queue, the
\* orders directory, _DECISION_SEQ, the assignable list, whether state.yaml
\* was written, the issues handed to the overlap checker and its answer
\* ("none" when it was not run), the exit code.
SupEnv(st, q, ord) ==
    [st |-> st, q |-> q, orders |-> ord, seq |-> 0, assignable |-> <<>>,
     wrote |-> FALSE, checked |-> <<>>, check |-> "none", rc |-> 0]

\* lines 1573-1619: a config error is reported by one Decision and one
\* blocked item; state.yaml is read, extended and written back.
ConfigError(S, ts, type, workers) ==
    LET w == write_decision(S.q, S.seq, ts,
                [Decision0 EXCEPT !.created_at = ts, !.type = type,
                                  !.reason = type, !.workers = workers])
    IN  [S EXCEPT !.q = w.q, !.seq = w.seq, !.wrote = TRUE,
                  !.st.blocked = Append(@, [issue |-> 0, reason |-> type])]

\* A loop that ends at the first candidate without change targets (a break
\* where the code has continue).
RECURSIVE PreExtractStop(_, _, _, _)
PreExtractStop(S, ts, mw, candidates) ==
    IF candidates = <<>> \/ Len(S.assignable) >= mw THEN S
    ELSE LET n == Head(candidates)
             w == write_decision(S.q, S.seq, ts,
                     [Decision0 EXCEPT !.created_at = ts, !.issue = n,
                                       !.type = "missing_change_targets",
                                       !.reason = "missing_change_targets"])
         IN  IF extract_allowed_files(n) = {}
             THEN [S EXCEPT !.q = w.q, !.seq = w.seq,
                      !.st.blocked = Append(@, [issue |-> n,
                                                reason |-> "missing_change_targets"])]
             ELSE PreExtractStop([S EXCEPT !.assignable = Append(@, n)],
                                 ts, mw, Tail(candidates))

\* lines 1645-1693: the pre-extraction loop over the candidates.
RECURSIVE PreExtract(_, _, _, _)
PreExtract(S, ts, mw, candidates) ==
    IF candidates = <<>> \/ Len(S.assignable) >= mw THEN S
    ELSE LET n == Head(candidates)
             w == write_decision(S.q, S.seq, ts,
                     [Decision0 EXCEPT !.created_at = ts, !.issue = n,
                                       !.type = "missing_change_targets",
                                       !.reason = "missing_change_targets"])
             S1 == IF extract_allowed_files(n) = {}
                   THEN [S EXCEPT !.q = w.q, !.seq = w.seq,
                            !.st.blocked = Append(@, [issue |-> n,
                                                      reason |-> "missing_change_targets"])]
                   ELSE [S EXCEPT !.assignable = Append(@, n)]
         IN  PreExtract(S1, ts, mw, Tail(candidates))

\* A supervisor whose overlap Decision names the first issue checked only.
OverlapDetectedFirstOnly(S, ts, issue_numbers) ==
    LET w == write_decision(S.q, S.seq, ts,
                [Decision0 EXCEPT !.created_at = ts, !.type = "overlap_detected",
                                  !.reason = "overlap_detected",
                                  !.issues = <<issue_numbers[1]>>])
    IN  [S EXCEPT !.q = w.q, !.seq = w.seq, !.wrote = TRUE,
            !.st.blocked = @ \o [i \in 1..Len(issue_numbers) |->
                                    [issue |-> issue_numbers[i],
                                     reason |-> "overlap_detected"]]]

\* lines 1705-1726: one overlap_detected Decision, one blocked item per issue
\* checked, state.yaml written, and the sweep is over.
OverlapDetected(S, ts, issue_numbers) ==
    LET w == write_decision(S.q, S.seq, ts,
                [Decision0 EXCEPT !.created_at = ts, !.type = "overlap_detected",
                                  !.reason = "overlap_detected",
                                  !.issues = issue_numbers])
    IN  [S EXCEPT !.q = w.q, !.seq = w.seq, !.wrote = TRUE,
            !.st.blocked = @ \o [i \in 1..Len(issue_numbers) |->
                                    [issue |-> issue_numbers[i],
                                     reason |-> "overlap_detected"]]]

OrderSuffixes(ord, worker, ts, n) ==
    {o[4] : o \in {x \in DOMAIN ord : x[1] = worker /\ x[2] = ts /\ x[3] = n}}

\* An assignment loop that writes each Order at <order_id>.yaml, without the
\* test of lines 1798-1800.
RECURSIVE AssignAtBaseName(_, _, _, _, _)
AssignAtBaseName(S, ts, todo, idle, idx) ==
    IF idx > Len(todo) THEN S
    ELSE LET n == todo[idx]
             worker == idle[idx]
             allowed == extract_allowed_files(n)
             entry == [ensure_issue_entry(S.st, n) EXCEPT
                          !.assigned_to = worker, !.phase = "estimating",
                          !.progress_percent = IF @ = -1 THEN 0 ELSE @,
                          !.allowed_files = allowed,
                          !.forbidden_files = ForbiddenFiles,
                          !.worktree = n]
             order == [order_id |-> <<ts, worker, n>>, issued_at |-> ts,
                       worker |-> worker, issue |-> n,
                       allowed_files |-> allowed, forbidden_files |-> ForbiddenFiles]
         IN  AssignAtBaseName([S EXCEPT !.st = SetEntry(@, n, entry),
                                        !.orders = (<<worker, ts, n, 0>> :> order) @@ @],
                              ts, todo, idle, idx + 1)

\* lines 1739-1802: one iteration per assignable issue, idx counting from 1.
RECURSIVE Assign(_, _, _, _, _)
Assign(S, ts, todo, idle, idx) ==
    IF idx > Len(todo) THEN S
    ELSE LET n == todo[idx]
             worker == idle[idx]
             allowed == extract_allowed_files(n)
             entry == [ensure_issue_entry(S.st, n) EXCEPT
                          !.assigned_to = worker, !.phase = "estimating",
                          !.progress_percent = IF @ = -1 THEN 0 ELSE @,
                          !.allowed_files = allowed,
                          !.forbidden_files = ForbiddenFiles,
                          !.worktree = n]
             order == [order_id |-> <<ts, worker, n>>, issued_at |-> ts,
                       worker |-> worker, issue |-> n,
                       allowed_files |-> allowed, forbidden_files |-> ForbiddenFiles]
             suffix == unique_path_with_suffix(OrderSuffixes(S.orders, worker, ts, n))
         IN  Assign([S EXCEPT !.st = SetEntry(@, n, entry),
                              !.orders = (<<worker, ts, n, suffix>> :> order) @@ @],
                    ts, todo, idle, idx + 1)

\* lines 1695-1808, from the overlap check on; check_fails is whether the
\* external checker ends with an exit code that is neither 0 nor 3.
AfterExtract(S, ts, idle, eff, check_fails) ==
    LET overlap_candidates == IF eff <= 0 THEN S.assignable
                              ELSE Take(S.assignable, eff)
        todo == Take(S.assignable, eff)
        rc == IF check_fails THEN 2 ELSE run_worktree_check(overlap_candidates)
        S1 == IF Len(overlap_candidates) >= 2
              THEN [S EXCEPT !.checked = overlap_candidates,
                             !.check = CASE rc = 0 -> "clear" [] rc = 3 -> "overlap"
                                         [] OTHER -> "error"]
              ELSE S
    IN  IF S1.check = "overlap" THEN OverlapDetected(S1, ts, overlap_candidates)
        ELSE IF S1.check = "error" THEN [S1 EXCEPT !.rc = 1]
        ELSE IF eff <= 0 THEN [S1 EXCEPT !.wrote = TRUE]
        ELSE [Assign(S1, ts, todo, idle, 1) EXCEPT !.wrote = TRUE]

\* cmd_supervise on the state S.st read at line 1623 (at its start for the
\* config errors).
supervise(S, ts, cfg, candidates, check_fails) ==
    LET idle == idle_workers(worker_ids(cfg), busy_workers(S.st))
        mw == max_workers(cfg)
    IN  IF candidates = <<>> THEN S
        ELSE IF invalid_worker_ids(cfg) # <<>>
        THEN ConfigError(S, ts, "config_invalid_workers", invalid_worker_ids(cfg))
        ELSE IF worker_ids(cfg) = <<>>
        THEN ConfigError(S, ts, "config_missing_workers", <<>>)
        ELSE AfterExtract(PreExtract(S, ts, mw, candidates), ts, idle,
                          effective_max_workers(mw, idle), check_fails)

\* The last supervise invocation: how many there were, its candidates, the
\* issues it handed to the overlap checker, the checker's answer, its exit code.
SupIdle == [runs |-> 0, candidates |-> <<>>, checked |-> <<>>, check |-> "none", rc |-> 0]

\* One supervise --once invocation, run with no other command in between.
cmd_supervise(candidates) ==
    /\ sup.runs < MaxSupervise
    /\ \E check_fails \in BOOLEAN :
          LET S == supervise(SupEnv(ensure_ops_layout(state), q_decisions, orders),
                             now, config, candidates, check_fails)
          IN  /\ q_decisions' = S.q
              /\ orders' = S.orders
              /\ state' = IF S.wrote THEN S.st ELSE ensure_ops_layout(state)
              /\ sup' = [runs |-> sup.runs + 1, candidates |-> candidates,
                         checked |-> S.checked, check |-> S.check, rc |-> S.rc]
    /\ UNCHANGED <<lock, q_checkins, a_checkins, a_decisions, config, col, chk,
                   now, awVars>>

----------------------------------------------------------------------------
(* Initial states and clock *)

MaxNow == 2

\* One second passes (utc_now_iso / utc_now_compact have a resolution of 1 s).
Tick ==
    /\ now < MaxNow
    /\ now' = now + 1
    /\ UNCHANGED <<lock, fsVars, config, col, chk, sup, awVars>>

\* ensure_ops_layout on a fresh repository: empty queues and archives, the
\* default state.yaml, no lock file, no command running, no write under way.
InitOps ==
    /\ lock = NoLock
    /\ q_checkins = <<>>
    /\ a_checkins = <<>>
    /\ q_decisions = <<>>
    /\ a_decisions = <<>>
    /\ orders = <<>>
    /\ state = default_state_yaml
    /\ config = default_config_yaml
    /\ col = [p \in Procs |-> ColIdle]
    /\ chk = [c \in Procs |-> ChkIdle]
    /\ sup = SupIdle
    /\ now = 1
    /\ aw_old = Absent
    /\ aw_target = Absent
    /\ aw = [w \in Writers |-> AwIdle]

----------------------------------------------------------------------------
(* The atomic write primitive on its own *)

InitWrite ==
    /\ aw_old \in Contents \cup {Absent}
    /\ aw_target = aw_old
    /\ aw = [w \in Writers |-> AwIdle]
    /\ lock = NoLock
    /\ q_checkins = <<>>
    /\ a_checkins = <<>>
    /\ q_decisions = <<>>
    /\ a_decisions = <<>>
    /\ orders = <<>>
    /\ state = default_state_yaml
    /\ config = default_config_yaml
    /\ col = [p \in Procs |-> ColIdle]
    /\ chk = [c \in Procs |-> ChkIdle]
    /\ sup = SupIdle
    /\ now = 1

NextWrite ==
    \E w \in Writers :
        \/ AwMkstemp(w)
        \/ AwWrite(w)
        \/ AwFsync(w)
        \/ AwReplace(w)
        \/ AwError(w)
        \/ AwKill(w)

SpecWrite == InitWrite /\ [][NextWrite]_vars

\* C2: at every step of a write, and after a kill at any step, the target path
\* holds the complete old content (or is absent) or the complete data of a
\* writer whose rename has happened.
C2_NeverPartial ==
    \/ aw_target = aw_old
    \/ \E w \in Writers : aw[w].pc = "done" /\ aw_target = aw[w].data

\* A writer was killed with its temp file holding a proper, non-empty prefix
\* of its data, the target still being the old content.
C2_Witness ==
    \E w \in Writers :
        /\ aw[w].pc = "killed"
        /\ aw[w].tmp # aw[w].data
        /\ Len(aw[w].tmp) > 0
        /\ aw_target = aw_old
        /\ aw_target # aw[w].data

----------------------------------------------------------------------------
(* Concurrent collect invocations *)

\* The arguments of a checkin command: --worker, --issue, the clock, phase,
\* percent, summary and the optional lists.
Args0(worker, issue) ==
    [worker |-> worker, issue |-> issue, ts |-> now, phase |-> "implementing",
     percent |-> 50, summary |-> "progress", files_changed |-> {},
     needs_approval |-> FALSE, request_file |-> {}, blocker |-> <<>>,
     skills |-> <<>>, respond_to |-> NoId]

ArgsLock == {[Args0("w1", 1) EXCEPT !.needs_approval = TRUE]}

CollectStep(p) ==
    \/ CollectInvoke(p)
    \/ acquire_lock(p)
    \/ CollectLoad(p)
    \/ CollectPass1(p)
    \/ CollectPass2(p)
    \/ CollectWriteState(p)
    \/ CollectArchive(p)
    \/ CollectRelease(p)

NextLock ==
    \/ \E args \in ArgsLock : cmd_checkin(args)
    \/ \E p \in Procs : CollectStep(p)
    \/ \E p \in Procs : CollectInterrupt(p)
    \/ \E p \in Procs : CollectKill(p)
    \/ Tick

SpecLock == InitOps /\ [][NextLock]_vars

\* The files a sweep may write: state.yaml, the decision queue and archive,
\* the checkin queue and archive.
Written == <<state, q_decisions, a_decisions, a_checkins>>

\* C1: at most one collect invocation is inside the lock-protected sweep, and
\* it is the one whose pid is in the lock file.
C1_OneInSweep ==
    /\ Cardinality({p \in Procs : InSweep(p)}) <= 1
    /\ \A p \in Procs : InSweep(p) => lock = p

\* C1: an existing lock file is never overwritten (it is only removed), and
\* the caller that finds it fails at once with a non-zero exit, having written
\* nothing.
C1_NoOverwrite ==
    /\ lock # NoLock => lock' \in {lock, NoLock}
    /\ \A p \in Procs :
         col[p].pc = "acquire" /\ lock # NoLock /\ col'[p] # col[p] /\ col'[p].pc # "killed"
            => /\ col'[p].pc = "idle"
               /\ col'[p].rc # 0
               /\ lock' = lock
               /\ Written' = Written

\* C1: for any interleaving of concurrent collect invocations, exactly one of
\* two simultaneous callers acquires the exclusively created lock and is in
\* the sweep; the other fails immediately and no lock file is overwritten.
C1_MutualExclusion == []C1_OneInSweep /\ [][C1_NoOverwrite]_vars

\* One invocation is in the middle of its sweep and the other one has just
\* failed to acquire the lock.
C1_Witness ==
    \E p, o \in Procs :
        /\ p # o
        /\ col[p].pc = "pass1"
        /\ col[o].pc = "idle" /\ col[o].rc = 1 /\ col[o].runs > 0

----------------------------------------------------------------------------
(* Supervise sweeps *)

\* The config.yaml files an operator may have written.
Configs ==
    {default_config_yaml,
     [default_config_yaml EXCEPT !.max_workers = 2],
     [default_config_yaml EXCEPT !.max_workers = 0],
     [default_config_yaml EXCEPT !.enabled = FALSE],
     [default_config_yaml EXCEPT !.workers = <<>>],
     [default_config_yaml EXCEPT !.workers = <<"w1", "bad id">>],
     [default_config_yaml EXCEPT !.workers = <<"w1">>]}

\* --targets, or the open issues the tracker lists.
CandidateSeqs == SeqsUpTo(SupIssues, MaxCands)

InitSup ==
    /\ config \in Configs
    /\ lock = NoLock
    /\ q_checkins = <<>>
    /\ a_checkins = <<>>
    /\ q_decisions = <<>>
    /\ a_decisions = <<>>
    /\ orders = <<>>
    /\ state = default_state_yaml
    /\ col = [p \in Procs |-> ColIdle]
    /\ chk = [c \in Procs |-> ChkIdle]
    /\ sup = SupIdle
    /\ now = 1
    /\ aw_old = Absent
    /\ aw_target = Absent
    /\ aw = [w \in Writers |-> AwIdle]

NextSup ==
    \/ \E candidates \in CandidateSeqs : cmd_supervise(candidates)
    \/ Tick

SpecSup == InitSup /\ [][NextSup]_vars

Min3(a, b, c) ==
    LET ab == IF a < b THEN a ELSE b IN IF ab < c THEN ab ELSE c

\* The files and entries a supervise step has just written.
NewOrders == DOMAIN orders' \ DOMAIN orders

NewDecisions == DOMAIN q_decisions' \ DOMAIN q_decisions

SetEntries ==
    {n \in DOMAIN state'.issues :
        n \notin DOMAIN state.issues \/ state'.issues[n] # state.issues[n]}

\* The configured workers that no entry in a busy phase is assigned to.
NumIdle ==
    Cardinality({w \in {config.workers[i] : i \in 1..Len(config.workers)} :
        \A n \in DOMAIN state.issues :
            ~(/\ state.issues[n].assigned_to = w
              /\ state.issues[n].phase \in {"estimating", "implementing", "reviewing"})})

\* A supervise sweep (with a valid workers list) whose candidates all declare
\* change targets and whose overlap check, if any, reported no overlap.
CleanSweep ==
    /\ sup'.runs = sup.runs + 1
    /\ sup'.check \in {"none", "clear"}
    /\ \A i \in 1..Len(config.workers) : config.workers[i] \notin InvalidWorkerIds
    /\ \A i \in 1..Len(sup'.candidates) :
          extract_allowed_files(sup'.candidates[i]) # {}

C7_Step ==
    CleanSweep =>
        LET k == Min3(max_workers(config), NumIdle, Len(sup'.candidates))
        IN  /\ Cardinality(NewOrders) = k
            /\ Cardinality(SetEntries) = k
            /\ \A n \in SetEntries : state'.issues[n].phase = "estimating"
            /\ \A o \in NewOrders :
                  /\ orders'[o].issue \in SetEntries
                  /\ state'.issues[orders'[o].issue].assigned_to = orders'[o].worker

\* C7: a supervise sweep with no overlap and all change targets extractable
\* writes min(max_workers, idle workers, candidates) Orders, sets exactly that
\* many IssueEntries to estimating, and each Order names its entry's assignee.
C7_Admission == [][C7_Step]_vars

\* Two Orders were issued by a sweep that had three candidates.
C7_Witness ==
    /\ sup.runs > 0
    /\ sup.check = "clear"
    /\ Len(sup.candidates) = 3
    /\ Cardinality(DOMAIN orders) = 2
    /\ Cardinality({n \in DOMAIN state.issues : state.issues[n].phase = "estimating"}) = 2

C8_Step ==
    sup'.runs = sup.runs + 1 /\ sup'.check = "overlap" =>
        /\ NewOrders = {}
        /\ state'.issues = state.issues
        /\ Cardinality({d \in NewDecisions :
                            q_decisions'[d].type = "overlap_detected"}) = 1
        /\ \A d \in NewDecisions :
              q_decisions'[d].type = "overlap_detected" =>
                  q_decisions'[d].issues = sup'.checked
        /\ \A d \in DOMAIN q_decisions : q_decisions'[d] = q_decisions[d]

\* C8: when the overlap checker reports overlap, the sweep writes no Order,
\* changes no IssueEntry and emits exactly one overlap_detected Decision that
\* names every issue checked.
C8_OverlapFailClosed == [][C8_Step]_vars

\* An overlap between issues 1 and 3 was reported and one Decision names both.
C8_Witness ==
    /\ sup.check = "overlap"
    /\ sup.checked = <<1, 3>>
    /\ orders = <<>>
    /\ \E d \in DOMAIN q_decisions :
          q_decisions[d].type = "overlap_detected" /\ q_decisions[d].issues = <<1, 3>>

\* The config error a config.yaml carries: invalid identifiers come first.
ConfigErrorOf(cfg) ==
    IF \E i \in 1..Len(cfg.workers) : cfg.workers[i] \in InvalidWorkerIds
    THEN "config_invalid_workers"
    ELSE IF cfg.workers = <<>> THEN "config_missing_workers" ELSE ""

C14_Step ==
    sup'.runs = sup.runs + 1 /\ ConfigErrorOf(config) # "" =>
        /\ \E d \in NewDecisions : q_decisions'[d].type = ConfigErrorOf(config)
        /\ NewOrders = {}
        /\ state'.issues = state.issues

\* C14: every supervise sweep run with a config whose workers list is empty
\* or holds an invalid identifier emits a config_missing_workers or a
\* config_invalid_workers Decision respectively, writes no Order and creates
\* or modifies no IssueEntry.
C14_ConfigErrorDecision == [][C14_Step]_vars

C15_Step ==
    /\ sup'.runs = sup.runs + 1
    /\ \E d \in NewDecisions :
          q_decisions'[d].type \in {"config_missing_workers", "config_invalid_workers"}
    => sup'.rc # 0

\* C15: a supervise sweep that detects a configuration error (it emits the
\* config_missing_workers or config_invalid_workers Decision) ends with a
\* non-zero process exit code.
C15_ConfigErrorExitCode == [][C15_Step]_vars

\* C19: after any sequence of supervise sweeps the number of IssueEntries in
\* phase estimating, implementing or reviewing is at most
\* policy.parallel.max_workers (1 when parallel is disabled).
C19_GlobalCeiling ==
    Cardinality({n \in DOMAIN state.issues :
                    state.issues[n].phase \in {"estimating", "implementing", "reviewing"}})
        <= max_workers(config)

HasTargets(n) == extract_allowed_files(n) # {}

\* The candidates that declare change targets, in order.
Extractable(cands) == SelectSeq(cands, HasTargets)

\* The positions of the candidate list whose extraction comes before the
\* ceiling mw of extractable candidates is reached.
Examined(cands, mw) ==
    {i \in 1..Len(cands) : Len(Extractable(SubSeq(cands, 1, i - 1))) < mw}

MissingDecisions ==
    {d \in NewDecisions : q_decisions'[d].type = "missing_change_targets"}

C20_Step ==
    sup'.runs = sup.runs + 1 /\ ConfigErrorOf(config) = "" =>
        LET cands == sup'.candidates
            mw == max_workers(config)
            missing == {i \in Examined(cands, mw) : ~HasTargets(cands[i])}
            k == IF mw < NumIdle THEN mw ELSE NumIdle
            todo == Take(Extractable(cands), k)
        IN  /\ Cardinality(MissingDecisions) = Cardinality(missing)
            /\ \A i \in missing :
                  /\ \E d \in MissingDecisions : q_decisions'[d].issue = cands[i]
                  /\ \A o \in NewOrders : orders'[o].issue # cands[i]
                  /\ cands[i] \notin SetEntries
            /\ sup'.check \in {"none", "clear"} /\ sup'.rc = 0 =>
                  {orders'[o].issue : o \in NewOrders} = {todo[i] : i \in 1..Len(todo)}

\* C20: a candidate whose change targets cannot be extracted gets one
\* missing_change_targets Decision, no Order and no IssueEntry change in that
\* sweep, and the sweep goes on: the Orders of a sweep that is not stopped by
\* the overlap check go to the first extractable candidates of the list, up
\* to the ceiling, the unextractable ones in between being skipped.
C20_MissingTargetsSkipped == [][C20_Step]_vars

\* Issue 4 declares no target: the sweep with candidates 4, 1, 2 filed one
\* Decision for it and assigned issues 1 and 2.
C20_Witness ==
    /\ sup.candidates = <<4, 1, 2>>
    /\ sup.check = "clear"
    /\ {orders[o].issue : o \in DOMAIN orders} = {1, 2}
    /\ DOMAIN state.issues = {1, 2}
    /\ Cardinality({d \in DOMAIN q_decisions :
                        /\ q_decisions[d].type = "missing_change_targets"
                        /\ q_decisions[d].issue = 4}) = 1

C26_Step ==
    sup'.runs = sup.runs + 1 =>
        \A n \in DOMAIN state.issues :
            state.issues[n].assigned_to # "" /\ state.issues[n].phase \in BusyPhases =>
                /\ state'.issues[n].assigned_to = state.issues[n].assigned_to
                /\ \A o \in NewOrders : orders'[o].issue # n

\* C26: a supervise sweep never assigns an issue whose IssueEntry is assigned
\* to a worker and in phase estimating, implementing or reviewing to another
\* worker, and writes no Order for it.
C26_OneHolder == [][C26_Step]_vars

C29_Step ==
    sup'.runs = sup.runs + 1 =>
        \A d \in NewDecisions :
            \A e \in DOMAIN q_decisions :
                ~(/\ q_decisions[e].type = q_decisions'[d].type
                  /\ q_decisions[e].issue = q_decisions'[d].issue
                  /\ q_decisions[e].issues = q_decisions'[d].issues
                  /\ q_decisions[e].workers = q_decisions'[d].workers)

\* C29: a supervise sweep adds no missing_change_targets, overlap_detected,
\* config_missing_workers or config_invalid_workers Decision for a condition
\* (type, issue, issues checked, invalid workers) for which the live queue
\* holds a Decision already.
C29_SupervisorDedupe == [][C29_Step]_vars

C30_Step ==
    sup'.runs = sup.runs + 1 /\ sup'.rc = 0 /\ NewDecisions # {} =>
        \A d \in DOMAIN q_decisions' :
            \E i \in 1..Len(state'.action_required) :
                state'.action_required[i].decision_id = d

\* C30: after a completed supervise sweep that emitted Decisions,
\* state.action_required lists every Decision of the live queue, the ones
\* just emitted included.
C30_SupervisorRebuildsIndex == [][C30_Step]_vars

C34_Step ==
    sup'.runs = sup.runs + 1 /\ ConfigErrorOf(config) = "" =>
        LET mw == max_workers(config)
            k == IF mw < NumIdle THEN mw ELSE NumIdle
            todo == Take(Extractable(sup'.candidates), k)
        IN  /\ sup'.checked = IF Len(todo) >= 2 THEN todo ELSE <<>>
            /\ NumIdle = 0 =>
                  /\ sup'.check = "none"
                  /\ \A d \in NewDecisions : q_decisions'[d].type # "overlap_detected"

\* C34: the issues a supervise sweep hands to the overlap checker are the
\* first min(max_workers, idle workers) candidates that declare change
\* targets (the checker runs when these are two or more), and a sweep that
\* finds no worker idle runs no overlap check and files no overlap_detected
\* Decision.
C34_OverlapCheckedAreAssigned == [][C34_Step]_vars

C38_Step ==
    sup'.runs = sup.runs + 1 /\ sup'.check = "error" =>
        /\ sup'.rc # 0
        /\ orders' = orders
        /\ state' = state
        /\ q_decisions' = q_decisions

\* C38: a supervise sweep whose overlap checker fails ends with a non-zero
\* exit code and leaves the orders, state.yaml and the decision queue as
\* they were before the sweep.
C38_CheckerFailureLeavesNoTrace == [][C38_Step]_vars

----------------------------------------------------------------------------
(* Concurrent checkin commands *)

ArgsRace ==
    {[Args0(w, 1) EXCEPT !.needs_approval = a] : w \in {"w1", "w2"}, a \in BOOLEAN}

NextCheckin ==
    \/ \E c \in Procs, args \in ArgsRace : cmd_checkin_test(c, args)
    \/ \E c \in Procs : cmd_checkin_write(c)
    \/ Tick

SpecCheckin == InitOps /\ [][NextCheckin]_vars

C4_Step ==
    \A path \in DOMAIN q_checkins :
        path \in DOMAIN q_checkins' => q_checkins'[path] = q_checkins[path]

\* C4: a checkin command never overwrites an existing checkin file of the
\* queue, also when two commands for the same worker and timestamp run
\* concurrently: a file that is in the queue keeps its content.
C4_CreateOnly == [][C4_Step]_vars

----------------------------------------------------------------------------
(* Sequences of checkin commands and collect sweeps *)

\* Checkins asking for approval, for more files, and reporting a blocker.
ArgsCollect ==
    {[Args0("w1", 1) EXCEPT !.needs_approval = TRUE],
     [Args0("w2", 1) EXCEPT !.needs_approval = TRUE],
     [Args0("w1", 1) EXCEPT !.request_file = {F_src_b}],
     [Args0("w1", 2) EXCEPT !.blocker = <<[marker |-> "", text |-> "stuck"]>>]}

NextCollect ==
    \/ \E args \in ArgsCollect : cmd_checkin(args)
    \/ CollectStep("p1")
    \/ CollectInterrupt("p1")
    \/ Tick

SpecCollect == InitOps /\ [][NextCollect]_vars

\* C3: no two Decision files of the live queue carry the same dedupe_key, so
\* collecting a second checkin with the same type, issue, worker and payload
\* while the first Decision is queued creates no new Decision.
C3_UniqueDedupeKey ==
    \A a, b \in DOMAIN q_decisions :
        a # b /\ q_decisions[a].dedupe_key # NoKey
            => q_decisions[a].dedupe_key # q_decisions[b].dedupe_key

\* Two different checkin files of w1 asking approval for issue 1 have been
\* consumed and the approval Decision is in the queue.
C3_Witness ==
    /\ \E x, y \in DOMAIN a_checkins :
          /\ x # y
          /\ x[1] = "w1" /\ y[1] = "w1"
          /\ a_checkins[x].approval /\ a_checkins[y].approval
          /\ a_checkins[x].issue = 1 /\ a_checkins[y].issue = 1
    /\ \E d \in DOMAIN q_decisions :
          q_decisions[d].dedupe_key =
              decision_dedupe_key("approval_required", 1, "w1", PayloadV1)

\* The recent_checkins items of state.yaml that a checkin of worker w written
\* at ts left, and the checkin files of that name (on a name collision the
\* archive holds several).
RecentOf(w, ts) ==
    {i \in 1..Len(state.recent_checkins) :
        state.recent_checkins[i].worker = w /\ state.recent_checkins[i].timestamp = ts}

FilesOf(w, ts) ==
    {x \in DOMAIN a_checkins : x[1] = w /\ x[2] = ts}
        \cup {<<x[1], x[2], -1>> : x \in {y \in DOMAIN q_checkins : y[1] = w /\ y[2] = ts}}

\* C5: each checkin file is consumed exactly once: over any sequence of
\* sweeps, aborted ones included, state.yaml holds at most one recent_checkins
\* item per checkin file, and once no sweep is running a file whose effects
\* are in state.yaml is in the archive.
C5_ConsumedOnce ==
    \A w \in Workers, ts \in 1..MaxNow :
        /\ Cardinality(RecentOf(w, ts)) <= Cardinality(FilesOf(w, ts))
        /\ col["p1"].pc = "idle" /\ RecentOf(w, ts) # {}
              => \E x \in DOMAIN a_checkins : x[1] = w /\ x[2] = ts

\* C27: no worker is the assigned_to of more than one IssueEntry of state.yaml
\* whose phase is estimating, implementing or reviewing.
C27_OneIssuePerWorker ==
    \A a, b \in DOMAIN state.issues :
        /\ state.issues[a].assigned_to # ""
        /\ state.issues[a].assigned_to = state.issues[b].assigned_to
        /\ state.issues[a].phase \in BusyPhases
        /\ state.issues[b].phase \in BusyPhases
        => a = b

----------------------------------------------------------------------------
(* Contract enforcement *)

\* Checkins of w1 on issue 1 that report changed files.
ArgsContract ==
    {[Args0("w1", 1) EXCEPT !.files_changed = {F_src_b}],
     [Args0("w1", 1) EXCEPT !.files_changed = {F_src_a}],
     [Args0("w1", 1) EXCEPT !.files_changed = {F_src_a, F_agent}]}

\* The supervisor assigns issue 1 between two sweeps of the collector.
NextContract ==
    \/ col["p1"].pc = "idle" /\ cmd_supervise(<<1>>)
    \/ \E args \in ArgsContract : cmd_checkin(args)
    \/ CollectStep("p1")
    \/ Tick

SpecContract == InitOps /\ [][NextContract]_vars

\* The changed files of a checkin that match no pattern of the non-empty
\* allowed_files of its issue's contract.
Outside(checkin) ==
    IF checkin.issue \in DOMAIN state.issues
          /\ state.issues[checkin.issue].allowed_files # {}
    THEN {f \in checkin.files_changed :
            \A pat \in state.issues[checkin.issue].allowed_files :
                ~match_parts(f, pat)}
    ELSE {}

ExpansionsFor(worker, issue, files) ==
    {d \in DOMAIN q_decisions :
        /\ q_decisions[d].type = "contract_expansion"
        /\ q_decisions[d].worker = worker
        /\ q_decisions[d].issue = issue
        /\ q_decisions[d].requested_files = files}

\* C6: when the sweep has written state.yaml, every issue for which it
\* processed a checkin with a changed file outside allowed_files is in phase
\* blocked, and the queue holds exactly one contract_expansion Decision for
\* that worker, issue and file set.
C6_BlockedAndOneDecision ==
    col["p1"].pc = "archive" =>
        \A i \in 1..Len(col["p1"].items) :
            LET it == col["p1"].items[i]
            IN  Outside(it.checkin) # {} =>
                  /\ state.issues[it.issue].phase = "blocked"
                  /\ \E files \in SUBSET it.checkin.files_changed :
                        /\ Outside(it.checkin) \subseteq files
                        /\ Cardinality(ExpansionsFor(it.checkin.worker, it.issue, files)) = 1

\* The changed files of a checkin that the contract of entry does not admit:
\* those outside a non-empty allowed_files, and those under forbidden_files.
OutsideOf(entry, checkin) ==
    IF entry.allowed_files = {} THEN {}
    ELSE {f \in checkin.files_changed :
            \A pat \in entry.allowed_files : ~match_parts(f, pat)}

HitsOf(entry, checkin) ==
    {f \in checkin.files_changed :
        \E pat \in entry.forbidden_files : match_parts(f, pat)}

NewExpansions ==
    {d \in NewDecisions : q_decisions'[d].type = "contract_expansion"}

C35_Step ==
    /\ col["p1"].pc = "pass1"
    /\ col'["p1"] # col["p1"]
    /\ col'["p1"].pc \in {"pass1", "pass2"}
    /\ col["p1"].items[col["p1"].idx].checkin.respond_to = NoId
    => LET it == col["p1"].items[col["p1"].idx]
           entry == ensure_issue_entry(col["p1"].st, it.issue)
           hits == HitsOf(entry, it.checkin)
           listed == OutsideOf(entry, it.checkin) \cup hits
           after == col'["p1"].st
       IN  /\ \A d \in NewExpansions :
                 /\ q_decisions'[d].issue = it.issue
                 /\ q_decisions'[d].worker = it.checkin.worker
                 /\ q_decisions'[d].requested_files = listed
                 /\ q_decisions'[d].forbidden_files = hits
                 /\ q_decisions'[d].severity = IF hits # {} THEN "major" ELSE "normal"
           /\ listed = {} =>
                 /\ NewExpansions = {}
                 /\ after.issues[it.issue].phase = it.checkin.phase
                 /\ after.blocked = col["p1"].st.blocked
           /\ listed # {} =>
                 /\ after.issues[it.issue].phase = "blocked"
                 /\ Cardinality(NewExpansions) <= 1
                 /\ \E d \in DOMAIN q_decisions' :
                       /\ q_decisions'[d].type = "contract_expansion"
                       /\ q_decisions'[d].issue = it.issue
                       /\ q_decisions'[d].worker = it.checkin.worker
                       /\ q_decisions'[d].requested_files = listed

\* C35: the contract_expansion Decision that the sweep emits for a checkin
\* lists the changed files outside a non-empty allowed_files together with
\* the changed files under forbidden_files, and no other file; its severity
\* is major when a forbidden pattern matched and normal otherwise; a checkin
\* with no such file gets no Decision and its issue is not blocked.
C35_ExpansionListsOffenders == [][C35_Step]_vars

\* Issue 1 admits src/a.py only: the queue holds a normal Decision for
\* src/b.py and a major one for .agent/rules.md, and the sweep has also
\* processed a checkin that changed nothing but src/a.py.
C35_Witness ==
    /\ \E d \in DOMAIN q_decisions :
          /\ q_decisions[d].type = "contract_expansion"
          /\ q_decisions[d].requested_files = {F_src_b}
          /\ q_decisions[d].severity = "normal"
    /\ \E d \in DOMAIN q_decisions :
          /\ q_decisions[d].type = "contract_expansion"
          /\ q_decisions[d].requested_files = {F_agent}
          /\ q_decisions[d].forbidden_files = {F_agent}
          /\ q_decisions[d].severity = "major"
    /\ \E k \in DOMAIN a_checkins :
          /\ a_checkins[k].files_changed = {F_src_a}
          /\ \E o \in DOMAIN orders : orders[o].issued_at <= a_checkins[k].timestamp

----------------------------------------------------------------------------
(* Skill candidates *)

Skill1 == [name |-> "retry-helper", summary |-> "wrap flaky calls"]

\* Checkins of the three workers proposing the same skill for issue 1.
ArgsSkill == {[Args0(w, 1) EXCEPT !.skills = <<Skill1>>] : w \in Workers}

NextSkill ==
    \/ \E args \in ArgsSkill : cmd_checkin(args)
    \/ CollectStep("p1")
    \/ CollectInterrupt("p1")
    \/ Tick

SpecSkill == InitOps /\ [][NextSkill]_vars

SkillDecisions == {d \in DOMAIN q_decisions : q_decisions[d].type = "skill_candidate"}

Proposes(checkin, d) ==
    /\ checkin.issue = d.issue
    /\ \E i \in 1..Len(checkin.skills) :
          checkin.skills[i].name = d.name /\ checkin.skills[i].summary = d.summary

\* The (worker, checkin_id) pairs of the checkin files of a directory that
\* propose the skill of Decision d.
ProposedBy(files, d) ==
    {<<files[x].worker, files[x].checkin_id>> :
        x \in {y \in DOMAIN files : Proposes(files[y], d)}}

\* C9: the queue holds one skill_candidate Decision per (issue, name, summary),
\* and its submitters list has exactly one entry per (worker, checkin_id) pair
\* that submitted it: no pair twice, every consumed proposal, nothing else.
C9_OneDecisionOneEntryPerPair ==
    /\ \A a, b \in SkillDecisions :
          /\ q_decisions[a].issue = q_decisions[b].issue
          /\ q_decisions[a].name = q_decisions[b].name
          /\ q_decisions[a].summary = q_decisions[b].summary
          => a = b
    /\ \A d \in SkillDecisions :
          LET subs == q_decisions[d].submitters
          IN  /\ Len(subs) = Cardinality(Pairs(subs))
              /\ ProposedBy(a_checkins, q_decisions[d]) \subseteq Pairs(subs)
              /\ Pairs(subs) \subseteq
                    ProposedBy(a_checkins, q_decisions[d])
                        \cup ProposedBy(q_checkins, q_decisions[d])
    /\ \A x \in DOMAIN a_checkins :
          a_checkins[x].skills # <<>> =>
              \E d \in SkillDecisions : Proposes(a_checkins[x], q_decisions[d])

\* The proposals of w1 and w2 have been consumed, in one sweep or in two, and
\* the one Decision lists both.
C9_Witness ==
    /\ \E x, y \in DOMAIN a_checkins :
          x[1] = "w1" /\ y[1] = "w2"
    /\ \E d \in SkillDecisions :
          /\ Len(q_decisions[d].submitters) = 2
          /\ q_decisions[d].submitters[1].worker # q_decisions[d].submitters[2].worker

----------------------------------------------------------------------------
(* Research requests and responses *)

Question == [marker |-> ResearchMarker, text |-> "which API?"]

\* w1 asks for research on issue 1; w2 and w3 answer the Decision that the
\* first sweep of second 1 files as DEC-1-1-001.
ArgsRespond ==
    {[Args0("w1", 1) EXCEPT !.blocker = <<Question>>],
     [Args0("w2", 1) EXCEPT !.respond_to = <<1, 1, 1>>, !.summary = "use v2"],
     [Args0("w3", 1) EXCEPT !.respond_to = <<1, 1, 1>>, !.summary = "use v3"]}

NextRespond ==
    \/ \E args \in ArgsRespond : cmd_checkin(args)
    \/ CollectStep("p1")
    \/ CollectInterrupt("p1")
    \/ Tick

SpecRespond == InitOps /\ [][NextRespond]_vars

ResponseOf(checkin) ==
    [timestamp |-> checkin.timestamp, worker |-> checkin.worker,
     checkin_id |-> checkin.checkin_id, summary |-> checkin.summary]

\* A pass-2 step of p1 that applied the respond_to checkin of its item.
Responded ==
    /\ col["p1"].pc = "pass2"
    /\ col'["p1"].pc \in {"pass2", "write"}
    /\ col'["p1"] # col["p1"]
    /\ col["p1"].items[col["p1"].idx].checkin.respond_to # NoId

C10_Step ==
    /\ Responded =>
          LET checkin == col["p1"].items[col["p1"].idx].checkin
              id == checkin.respond_to
          IN  id \in DOMAIN q_decisions =>
                /\ id \notin DOMAIN q_decisions'
                /\ \E n \in DOMAIN a_decisions' \ DOMAIN a_decisions :
                      /\ n[1] = id
                      /\ a_decisions'[n].dedupe_key = q_decisions[id].dedupe_key
                      /\ a_decisions'[n].responses = <<ResponseOf(checkin)>>
                      /\ a_decisions'[n].resolved_by = checkin.worker
                      /\ a_decisions'[n].resolved_at = checkin.timestamp
                      /\ a_decisions'[n].resolution_summary = checkin.summary
    /\ \A n \in DOMAIN a_decisions :
          /\ n \in DOMAIN a_decisions'
          /\ IsPrefix(a_decisions[n].responses, a_decisions'[n].responses)
          /\ a_decisions[n].resolved_by # "" =>
                /\ a_decisions'[n].resolved_by = a_decisions[n].resolved_by
                /\ a_decisions'[n].resolved_at = a_decisions[n].resolved_at
                /\ a_decisions'[n].resolution_summary = a_decisions[n].resolution_summary

\* C10: applying a respond_to checkin to a research Decision of the live
\* queue records the response and moves the Decision to the archive in that
\* sweep (no answered Decision stays queued); a later response is appended
\* and leaves resolved_at, resolved_by and resolution_summary as they are.
C10_FirstResponderWins ==
    /\ [](\A d \in DOMAIN q_decisions : q_decisions[d].responses = <<>>)
    /\ [][C10_Step]_vars

\* An archived Decision holds two responses and is resolved by the first.
C10_Witness ==
    \E n \in DOMAIN a_decisions :
        /\ Len(a_decisions[n].responses) = 2
        /\ a_decisions[n].responses[1].checkin_id # a_decisions[n].responses[2].checkin_id
        /\ a_decisions[n].resolved_by = a_decisions[n].responses[1].worker
        /\ a_decisions[n].resolved_by # a_decisions[n].responses[2].worker

\* The checkin_ids recorded in the responses of Decision d.
ResponseIds(d) == {d.responses[i].checkin_id : i \in 1..Len(d.responses)}

\* The Decision a respond_to checkin is applied to, as the sweep finds it.
TargetOf(checkin) ==
    LET loc == find_decision_path_anywhere(q_decisions, a_decisions, checkin.respond_to)
    IN  IF loc.dir = "queue" THEN q_decisions[loc.id]
        ELSE IF loc.dir = "archive" THEN a_decisions[<<loc.id, loc.suffix>>]
        ELSE Decision0

C21_Step ==
    /\ Responded =>
          LET checkin == col["p1"].items[col["p1"].idx].checkin
          IN  checkin.checkin_id \in ResponseIds(TargetOf(checkin)) =>
                 /\ q_decisions' = q_decisions
                 /\ a_decisions' = a_decisions
    /\ \A n \in DOMAIN a_decisions :
          /\ n \in DOMAIN a_decisions'
          /\ ResponseIds(a_decisions[n]) \subseteq ResponseIds(a_decisions'[n])

\* C21: applying a response whose checkin_id the Decision has recorded
\* changes nothing; the responses of a Decision hold one entry per responding
\* checkin_id, and a recorded response is never dropped by a later one.
C21_ResponseIdempotent ==
    /\ [](\A n \in DOMAIN a_decisions :
            Len(a_decisions[n].responses) = Cardinality(ResponseIds(a_decisions[n])))
    /\ [][C21_Step]_vars

\* The sweep of second 1 recorded the answer of w2 and was interrupted before
\* it archived a checkin; the next sweep has applied the answer again, and the
\* archived Decision holds it once.
C21_Witness ==
    /\ col["p1"].runs = 2
    /\ col["p1"].pc = "write"
    /\ a_checkins = <<>>
    /\ \E i \in 1..Len(state.recent_checkins) : state.recent_checkins[i].worker = "w2"
    /\ \E i \in 1..Len(col["p1"].items) :
          /\ col["p1"].items[i].checkin.worker = "w2"
          /\ col["p1"].items[i].checkin.respond_to = <<1, 1, 1>>
    /\ DOMAIN a_decisions = {<<<<1, 1, 1>>, 0>>}
    /\ Len(a_decisions[<<<<1, 1, 1>>, 0>>].responses) = 1
    /\ a_decisions[<<<<1, 1, 1>>, 0>>].responses[1].worker = "w2"

\* The decision_id fields of the Decision files of the queue and the archive,
\* one per file.
DecisionFiles ==
    {<<"queue", id>> : id \in DOMAIN q_decisions}
        \cup {<<"archive", k>> : k \in DOMAIN a_decisions}

DecisionIdOf(f) ==
    IF f[1] = "queue" THEN q_decisions[f[2]].decision_id
    ELSE a_decisions[f[2]].decision_id

\* C31: no two Decision files, in the live queue or in the archive, hold the
\* same decision_id.
C31_UniqueDecisionId ==
    \A f, g \in DecisionFiles : f # g => DecisionIdOf(f) # DecisionIdOf(g)

\* The name of the n-th archive copy: the base name for n = 0, else the base
\* name with the suffix -00n; FirstFree is the first name not in use.
FirstFree(taken, s) ==
    /\ s \notin taken
    /\ \A r \in 0..(s - 1) : r \in taken

C32_Step ==
    /\ \A k \in DOMAIN a_checkins :
          k \in DOMAIN a_checkins' /\ a_checkins'[k] = a_checkins[k]
    /\ \A path \in DOMAIN q_checkins \ DOMAIN q_checkins' :
          \E k \in DOMAIN a_checkins' \ DOMAIN a_checkins :
              /\ k[1] = path[1] /\ k[2] = path[2]
              /\ FirstFree({m[3] : m \in {n \in DOMAIN a_checkins :
                                             n[1] = path[1] /\ n[2] = path[2]}}, k[3])
              /\ a_checkins'[k] = q_checkins[path]
    /\ \A k \in DOMAIN a_decisions : k \in DOMAIN a_decisions'
    /\ \A id \in DOMAIN q_decisions \ DOMAIN q_decisions' :
          /\ \A k \in DOMAIN a_decisions : a_decisions'[k] = a_decisions[k]
          /\ \E k \in DOMAIN a_decisions' \ DOMAIN a_decisions :
                /\ k[1] = id
                /\ FirstFree({m[2] : m \in {n \in DOMAIN a_decisions : n[1] = id}}, k[2])
                /\ a_decisions'[k].decision_id = id
                /\ a_decisions'[k].resolved_by # ""

\* C32: a step that moves a checkin or a Decision out of the queue adds one
\* archive file, under the base name when no archive file has it and else
\* under the first unused numeric suffix, and leaves every archive file
\* that was there in place with its content; no step removes an archive file.
C32_ArchiveNeverOverwrites == [][C32_Step]_vars

\* The archive holds two Decisions under one base name, the second with the
\* suffix -001, and the checkins of the asker and of an answerer.
C32_Witness ==
    /\ <<<<1, 1, 1>>, 0>> \in DOMAIN a_decisions
    /\ <<<<1, 1, 1>>, 1>> \in DOMAIN a_decisions
    /\ <<"w1", 1, 0>> \in DOMAIN a_checkins
    /\ <<"w2", 1, 0>> \in DOMAIN a_checkins

----------------------------------------------------------------------------
(* The first commands on a fresh repository *)

\* No command has run yet: there is no state.yaml (and nothing else).
InitLayout ==
    /\ state = NoState
    /\ lock = NoLock
    /\ q_checkins = <<>>
    /\ a_checkins = <<>>
    /\ q_decisions = <<>>
    /\ a_decisions = <<>>
    /\ orders = <<>>
    /\ config = default_config_yaml
    /\ col = [p \in Procs |-> ColIdle]
    /\ chk = [c \in Procs |-> ChkIdle]
    /\ sup = SupIdle
    /\ now = 1
    /\ aw_old = Absent
    /\ aw_target = Absent
    /\ aw = [w \in Writers |-> AwIdle]

NextLayout ==
    \/ \E args \in ArgsLock : cmd_checkin(args)
    \/ \E p \in Procs : CollectStep(p)
    \/ \E p \in Procs : CollectLayoutWrite(p)
    \/ Tick

SpecLayout == InitLayout /\ [][NextLayout]_vars

\* A step in which invocation p finds the lock taken and gives up.
FailsToAcquire(p) ==
    /\ col[p].pc = "acquire"
    /\ lock # NoLock
    /\ col'[p].pc = "idle"

C11_Step ==
    \A p \in Procs :
        FailsToAcquire(p) =>
            /\ col'[p].rc # 0
            /\ <<state, q_decisions, a_decisions, q_checkins, a_checkins>>'
                  = <<state, q_decisions, a_decisions, q_checkins, a_checkins>>
            /\ col[p].replaced \in {NoState, default_state_yaml}

\* C11: a collect invocation that fails to acquire the lock exits with a
\* non-zero code and has changed none of state.yaml, the decision queue, the
\* checkin queue and the archives: its failing step writes nothing and its
\* ensure_ops_layout has replaced no state.yaml content by another.
C11_FailedCollectWritesNothing == [][C11_Step]_vars

----------------------------------------------------------------------------
(* Sweeps that abort on a data error *)

\* w1 asks approval for issue 1; w2 answers DEC-1-1-001, which is no Decision
\* at all or, once the sweep of second 1 has filed w1's request under that id,
\* a Decision that is no research request.
ArgsAbort ==
    {[Args0("w1", 1) EXCEPT !.needs_approval = TRUE],
     [Args0("w2", 1) EXCEPT !.respond_to = <<1, 1, 1>>, !.summary = "use v2"]}

\* No interrupt here: a sweep ends by completing or by a RuntimeError of the
\* data (rc 1).
NextAbort ==
    \/ \E args \in ArgsAbort : cmd_checkin(args)
    \/ CollectStep("p1")
    \/ Tick

SpecAbort == InitOps /\ [][NextAbort]_vars

\* The checkin of that checkin_id has been consumed (it is in the archive).
Consumed(cid) == \E x \in DOMAIN a_checkins : a_checkins[x].checkin_id = cid

\* The sweep of p1 has aborted (it is about to release the lock with exit
\* code 1) or no sweep is running.
AbortedOrAtRest ==
    \/ col["p1"].pc = "idle"
    \/ col["p1"].pc = "release" /\ col["p1"].rc = 1

\* C12: a sweep that aborts on a data error in a pending checkin is not
\* partially applied: an aborted sweep archives nothing, so once a sweep has
\* aborted (and whenever none runs) state.yaml, the decision queue and the
\* decision archive hold effects of consumed (archived) checkins only.
C12_AbortNotPartial ==
    AbortedOrAtRest =>
        /\ \A d \in DOMAIN q_decisions :
              q_decisions[d].checkin_id # NoCid => Consumed(q_decisions[d].checkin_id)
        /\ \A n \in DOMAIN a_decisions :
              /\ a_decisions[n].checkin_id # NoCid => Consumed(a_decisions[n].checkin_id)
              /\ \A i \in 1..Len(a_decisions[n].responses) :
                    Consumed(a_decisions[n].responses[i].checkin_id)
        /\ \A n \in DOMAIN state.issues :
              state.issues[n].last_checkin # NoCid => Consumed(state.issues[n].last_checkin)

----------------------------------------------------------------------------
(* Checkin files whose worker field is not the name of their directory *)

\* A checkin file put into queue/checkins/<dir>/ by a worker that writes the
\* YAML itself: the file cmd_checkin would write for args, its worker field
\* naming claimed.
WriteCheckinFile(args, claimed) ==
    /\ NumCheckins < MaxCheckins
    /\ checkin_path(args) \notin DOMAIN q_checkins
    /\ q_checkins' = (checkin_path(args) :> [checkin_obj(args) EXCEPT !.worker = claimed])
                         @@ q_checkins
    /\ UNCHANGED <<lock, a_checkins, q_decisions, a_decisions, orders, state,
                   config, col, chk, sup, now, awVars>>

\* Requests in the directory of w1 (approval and a skill, a research question)
\* and, in the directory of w2, an answer to the research Decision DEC-1-1-001.
ArgsIdentity ==
    {[Args0("w1", 1) EXCEPT !.needs_approval = TRUE, !.skills = <<Skill1>>],
     [Args0("w1", 1) EXCEPT !.blocker = <<Question>>],
     [Args0("w2", 1) EXCEPT !.respond_to = <<1, 1, 1>>, !.summary = "use v2"]}

NextIdentity ==
    \/ \E args \in ArgsIdentity, claimed \in {"w1", "w2"} : WriteCheckinFile(args, claimed)
    \/ CollectStep("p1")
    \/ Tick

SpecIdentity == InitOps /\ [][NextIdentity]_vars

\* The item a sweep would load from the file at path if the file's worker
\* field named claimed.
ItemIfClaimed(path, claimed) ==
    LoadItem((path :> [q_checkins[path] EXCEPT !.worker = claimed]), path)

\* A pass-1 step of p1 that processed a normal checkin without an error.
Pass1Done ==
    /\ col["p1"].pc = "pass1"
    /\ col'["p1"].pc \in {"pass1", "pass2"}
    /\ col'["p1"] # col["p1"]
    /\ col["p1"].items[col["p1"].idx].checkin.respond_to = NoId

C13_Step ==
    /\ Pass1Done =>
          LET it == col["p1"].items[col["p1"].idx]
              dir == it.path[1]
              st == col'["p1"].st
          IN  /\ st.issues[it.issue].assigned_to = dir
              /\ st.recent_checkins[1].worker = dir
              /\ \A d \in NewDecisions :
                    /\ q_decisions'[d].worker = dir
                    /\ q_decisions'[d].dedupe_key.worker \in {dir, ""}
                    /\ \A i \in 1..Len(q_decisions'[d].submitters) :
                          q_decisions'[d].submitters[i].worker = dir
              /\ \A claimed \in Workers :
                    LET r == Pass1Item(ColEnv("p1"), col["p1"].st, now,
                                       ItemIfClaimed(it.path, claimed), TRUE)
                    IN  r.E.q = q_decisions' /\ r.st = st
    /\ Responded =>
          LET it == col["p1"].items[col["p1"].idx]
              dir == it.path[1]
          IN  /\ col'["p1"].st.recent_checkins[1].worker = dir
              /\ \A claimed \in Workers :
                    LET r == apply_research_response(q_decisions, a_decisions,
                                 it.checkin.respond_to,
                                 ItemIfClaimed(it.path, claimed).checkin)
                    IN  r.q = q_decisions' /\ r.a = a_decisions'

\* C13: the worker the collector records (assigned_to, Decision worker,
\* dedupe_key and submitters, recent_checkins, response worker) is the name of
\* the directory the checkin file lies in, and the file with any other value
\* in its worker field yields the same state and the same Decisions.
C13_WorkerFromDirectory ==
    /\ [][C13_Step]_vars
    /\ [](\A n \in DOMAIN a_decisions :
            \A i \in 1..Len(a_decisions[n].responses) :
               a_decisions[n].responses[i].worker = a_decisions[n].responses[i].checkin_id[1])

\* A consumed file of w1's directory names w2 as its worker; the IssueEntry
\* and the queued Decision made from it name w1.
C13_Witness ==
    \E x \in DOMAIN a_checkins :
        /\ x[1] = "w1"
        /\ a_checkins[x].worker = "w2"
        /\ a_checkins[x].approval
        /\ 1 \in DOMAIN state.issues
        /\ state.issues[1].assigned_to = "w1"
        /\ state.issues[1].last_checkin = a_checkins[x].checkin_id
        /\ \E d \in DOMAIN q_decisions :
              /\ q_decisions[d].checkin_id = a_checkins[x].checkin_id
              /\ q_decisions[d].type = "approval_required"
              /\ q_decisions[d].worker = "w1"

----------------------------------------------------------------------------
(* The phase of an IssueEntry *)

\* Checkins of w1 on issue 1 reporting a phase (the positional argument of
\* the checkin command takes any of the six), one of them with a changed
\* file outside the contract.
ArgsPhase ==
    {[Args0("w1", 1) EXCEPT !.phase = "estimating"],
     [Args0("w1", 1) EXCEPT !.phase = "reviewing"],
     [Args0("w1", 1) EXCEPT !.phase = "done"],
     [Args0("w1", 1) EXCEPT !.phase = "done", !.files_changed = {F_src_b}]}

\* Collect and supervise sweeps that run one after the other, the tracker
\* listing issue 1 as open.
NextPhase ==
    \/ col["p1"].pc = "idle" /\ cmd_supervise(<<1>>)
    \/ \E args \in ArgsPhase : cmd_checkin(args)
    \/ CollectStep("p1")
    \/ Tick

SpecPhase == InitOps /\ [][NextPhase]_vars

PhaseRank(ph) ==
    CASE ph = "backlog" -> 1 [] ph = "estimating" -> 2 [] ph = "implementing" -> 3
      [] ph = "reviewing" -> 4 [] ph = "done" -> 5 [] OTHER -> 0

\* A change of phase the state machine has: forwards along the chain, into
\* blocked from a phase that is not done, and (by the operator's resolution)
\* out of blocked.
PhaseMoveOk(a, b) ==
    \/ a = b
    \/ a # "done" /\ b = "blocked"
    \/ a = "blocked" /\ b # "blocked"
    \/ PhaseRank(a) > 0 /\ PhaseRank(a) < PhaseRank(b)

C16_Step ==
    \A n \in DOMAIN state.issues :
        /\ n \in DOMAIN state'.issues
        /\ PhaseMoveOk(state.issues[n].phase, state'.issues[n].phase)

\* C16: the phase of an IssueEntry of state.yaml only moves forwards along
\* backlog, estimating, implementing, reviewing, done, or into blocked from a
\* phase that is not done: no sweep moves it backwards, out of done, or from
\* done to blocked.
C16_PhaseMonotone == [][C16_Step]_vars

C25_Step ==
    \A n \in DOMAIN state.issues :
        state.issues[n].phase = "blocked" =>
            n \in DOMAIN state'.issues /\ state'.issues[n].phase = "blocked"

\* C25: an IssueEntry of state.yaml in phase blocked stays in phase blocked:
\* no collect sweep and no supervise sweep writes another phase into it.
C25_BlockedStays == [][C25_Step]_vars

\* The issues a supervise step has just assigned: their entries were written
\* with a worker and the phase estimating.
Assigned ==
    {n \in SetEntries : /\ state'.issues[n].phase = "estimating"
                        /\ state'.issues[n].assigned_to # ""}

C33_Step ==
    /\ \A o \in DOMAIN orders : o \in DOMAIN orders' /\ orders'[o] = orders[o]
    /\ sup'.runs = sup.runs + 1 =>
          /\ \A n \in Assigned :
                Cardinality({o \in NewOrders :
                    /\ o[1] = state'.issues[n].assigned_to
                    /\ orders'[o].worker = o[1]
                    /\ orders'[o].issue = n}) = 1
          /\ Cardinality(NewOrders) = Cardinality(Assigned)
          /\ \A o \in NewOrders :
                FirstFree({x[4] : x \in {y \in DOMAIN orders :
                              y[1] = o[1] /\ y[2] = o[2] /\ y[3] = o[3]}}, o[4])
    /\ sup'.runs = sup.runs => orders' = orders

----------------------------------------------------------------------------
(* The derived indexes of state.yaml *)

\* w1 proposes a skill and asks approval, w1 asks for research, w2 answers
\* the research Decision DEC-1-1-001.
ArgsIndex ==
    {[Args0("w1", 1) EXCEPT !.needs_approval = TRUE, !.skills = <<Skill1>>],
     [Args0("w1", 1) EXCEPT !.blocker = <<Question>>],
     [Args0("w2", 1) EXCEPT !.respond_to = <<1, 1, 1>>, !.summary = "use v2"]}

\* Between two collect sweeps the supervisor files a missing_change_targets
\* Decision for issue 4 (it does not touch the indexes of state.yaml).
NextIndex ==
    \/ col["p1"].pc = "idle" /\ cmd_supervise(<<4>>)
    \/ \E args \in ArgsIndex : cmd_checkin(args)
    \/ CollectStep("p1")
    \/ Tick

SpecIndex == InitOps /\ [][NextIndex]_vars

\* The sweep of p1 has written state.yaml and not failed since: it is
\* archiving the checkins, or it is done (exit code 0) and about to release.
SweepCompleted ==
    \/ col["p1"].pc = "archive"
    \/ col["p1"].pc = "release" /\ col["p1"].rc = 0

\* The positions of the list that name Decision d.
ListedAt(list, d) == {i \in 1..Len(list) : list[i].decision_id = d}

----------------------------------------------------------------------------
(* Supervise sweeps that run while a collect sweep holds the lock *)

\* w2 reports progress on issue 2.
ArgsUnlocked == {Args0("w2", 2)}

\* cmd_supervise takes no lock: a whole supervise sweep may run between any
\* two steps of a collect sweep.
NextUnlocked ==
    \/ cmd_supervise(<<1>>)
    \/ \E args \in ArgsUnlocked : cmd_checkin(args)
    \/ CollectStep("p1")
    \/ Tick

SpecUnlocked == InitOps /\ [][NextUnlocked]_vars

C18_Step ==
    \A n \in DOMAIN state.issues :
        /\ n \in DOMAIN state'.issues
        /\ state.issues[n].last_checkin # NoCid =>
              state'.issues[n].last_checkin # NoCid
        /\ state.issues[n].allowed_files # {} =>
              state'.issues[n].allowed_files # {}

\* C18: an IssueEntry that a completed sweep has written to state.yaml is
\* never deleted and the update is never lost, for any interleaving of
\* collect and supervise sweeps: every issue id of state.issues stays there,
\* and an entry keeps the checkin and the contract recorded in it (or gets
\* later ones).
C18_NoLostEntry == [][C18_Step]_vars

----------------------------------------------------------------------------
(* Sweeps over answers and requests, with a long history of checkins *)

\* w2 asks for research on issue 2 and w3 reports progress on issue 3; w1
\* answers the Decision DEC-1-2-001 that the sweep of second 1 files for w2's
\* request, in a checkin that also carries a phase and --needs-approval.  The
\* directory of w1 is listed before those of w2 and w3.
ArgsRecent ==
    {[Args0("w2", 2) EXCEPT !.blocker = <<Question>>],
     Args0("w3", 3),
     [Args0("w1", 2) EXCEPT !.respond_to = <<1, 2, 1>>, !.summary = "use v2",
                            !.phase = "reviewing", !.needs_approval = TRUE]}

\* A repository in which w3 has reported progress on issue 3 once a second
\* for the last 18 or 20 seconds and every report has been collected:
\* the archive holds the files, state.yaml the entry of issue 3 and the
\* recent_checkins items, the latest first.
InitRecent ==
    /\ now = 1
    /\ \E n \in {RecentCap - 2, RecentCap} :
          /\ a_checkins = [x \in {<<"w3", 1 - k, 0>> : k \in 1..n} |->
                              checkin_obj([Args0("w3", 3) EXCEPT !.ts = x[2]])]
          /\ state = [default_state_yaml EXCEPT
                !.issues = 3 :> UpdateEntry(Entry0,
                                    checkin_obj([Args0("w3", 3) EXCEPT !.ts = 0])),
                !.recent_checkins =
                    [k \in 1..n |-> [timestamp |-> 1 - k, worker |-> "w3",
                                     issue |-> 3, summary |-> "progress"]]]
    /\ lock = NoLock
    /\ q_checkins = <<>>
    /\ q_decisions = <<>>
    /\ a_decisions = <<>>
    /\ orders = <<>>
    /\ config = default_config_yaml
    /\ col = [p \in Procs |-> ColIdle]
    /\ chk = [c \in Procs |-> ChkIdle]
    /\ sup = SupIdle
    /\ aw_old = Absent
    /\ aw_target = Absent
    /\ aw = [w \in Writers |-> AwIdle]

NextRecent ==
    \/ \E args \in ArgsRecent : cmd_checkin(args)
    \/ CollectStep("p1")
    \/ CollectInterrupt("p1")
    \/ Tick

SpecRecent == InitRecent /\ [][NextRecent]_vars

Reverse(s) == [i \in 1..Len(s) |-> s[Len(s) + 1 - i]]

\* The checkins of a sweep in the order the sweep processes them (the normal
\* ones in pass 1, the answers in pass 2), as recent_checkins items.
Processed(items) ==
    LET Normal(it) == it.checkin.respond_to = NoId
        Answer(it) == it.checkin.respond_to # NoId
        order == SelectSeq(items, Normal) \o SelectSeq(items, Answer)
    IN  [i \in 1..Len(order) |->
            [timestamp |-> order[i].checkin.timestamp, worker |-> order[i].checkin.worker,
             issue |-> order[i].checkin.issue, summary |-> order[i].checkin.summary]]

C22_Step ==
    IF col["p1"].pc = "write" /\ col'["p1"].pc = "archive"
    THEN LET done == Processed(col["p1"].items)
         IN  /\ state'.recent_checkins =
                    Take(Reverse(done) \o state.recent_checkins, RecentCap)
             /\ state'.recent_checkins[1] = done[Len(done)]
    ELSE state'.recent_checkins = state.recent_checkins

\* C22: state.recent_checkins never holds more than 20 entries; a sweep puts
\* each checkin it processes at the front, in processing order, so the first
\* entry is the checkin processed last, and drops the oldest entries beyond 20.
C22_RecentBounded ==
    /\ [](Len(state.recent_checkins) <= RecentCap)
    /\ [][C22_Step]_vars

\* The list was full with the reports of seconds -19 to 0; a sweep put the
\* answer of w1, processed last, at the front and the oldest reports are gone.
C22_Witness ==
    /\ Len(state.recent_checkins) = RecentCap
    /\ state.recent_checkins[1].worker = "w1"
    /\ state.recent_checkins[2].worker = "w2"
    /\ <<"w3", 1 - RecentCap, 0>> \in DOMAIN a_checkins
    /\ state.recent_checkins[RecentCap].timestamp = 3 - RecentCap

\* The checkin_ids of the checkin files, pending or consumed, that carry
\* respond_to.decision_id.
AnswerIds ==
    {q_checkins[x].checkin_id : x \in {y \in DOMAIN q_checkins : q_checkins[y].respond_to # NoId}}
        \cup {a_checkins[x].checkin_id :
                    x \in {y \in DOMAIN a_checkins : a_checkins[y].respond_to # NoId}}

\* The last normal checkin of the sweep's items that reports on the issue.
LastNormal(items, issue) ==
    LET js == {j \in 1..Len(items) :
                  items[j].issue = issue /\ items[j].checkin.respond_to = NoId}
    IN  items[CHOOSE j \in js : \A k \in js : k <= j].checkin

C23_Step ==
    /\ Responded =>
          LET c == col["p1"]
              it == c.items[c.idx]
              id == it.checkin.respond_to
          IN  /\ col'["p1"].st = record_recent_checkin(c.st, it.checkin)
              /\ col'["p1"].st.issues = c.st.issues
              /\ NewDecisions = {}
              /\ \A d \in DOMAIN q_decisions' : q_decisions'[d] = q_decisions[d]
              /\ DOMAIN q_decisions \ DOMAIN q_decisions' \subseteq {id}
              /\ \A n \in DOMAIN a_decisions :
                    /\ n \in DOMAIN a_decisions'
                    /\ a_decisions'[n] # a_decisions[n] => a_decisions[n].decision_id = id
              /\ \A n \in DOMAIN a_decisions' \ DOMAIN a_decisions :
                    a_decisions'[n].decision_id = id
              /\ \A j \in 1..Len(c.items) :
                    c.items[j].checkin.respond_to = NoId =>
                        c.st.issues[c.items[j].issue].last_checkin
                            = LastNormal(c.items, c.items[j].issue).checkin_id
    /\ /\ col["p1"].pc = "pass1"
       /\ col'["p1"].pc \in {"pass1", "pass2"}
       /\ col'["p1"] # col["p1"]
       /\ col["p1"].items[col["p1"].idx].checkin.respond_to # NoId
       => /\ col'["p1"].st = col["p1"].st
          /\ q_decisions' = q_decisions
          /\ a_decisions' = a_decisions

\* C23: a checkin that carries respond_to changes no IssueEntry and creates no
\* Decision: applying it changes the target Decision (and moves it to the
\* archive) and adds the recent_checkins item, nothing else; pass 1 skips it,
\* and when pass 2 applies it every normal checkin of the sweep has been
\* processed.
C23_ResponseFrame ==
    /\ [](\A n \in DOMAIN state.issues : state.issues[n].last_checkin \notin AnswerIds)
    /\ [](\A d \in DOMAIN q_decisions : q_decisions[d].checkin_id \notin AnswerIds)
    /\ [](\A n \in DOMAIN a_decisions : a_decisions[n].checkin_id \notin AnswerIds)
    /\ [][C23_Step]_vars

\* The answer of w1, a checkin with phase reviewing and --needs-approval, has
\* been consumed in the sweep that filed the request of w2: the Decision is
\* archived with the answer, issue 2 is still w2's and implementing, and no
\* approval Decision exists.
C23_Witness ==
    /\ \E x \in DOMAIN a_checkins :
          /\ x[1] = "w1"
          /\ a_checkins[x].respond_to = <<1, 2, 1>>
          /\ a_checkins[x].approval
    /\ \E y \in DOMAIN a_checkins : y[1] = "w2" /\ y[2] = 1
    /\ \E n \in DOMAIN a_decisions :
          /\ n[1] = <<1, 2, 1>>
          /\ Len(a_decisions[n].responses) = 1
          /\ a_decisions[n].responses[1].worker = "w1"
    /\ 2 \in DOMAIN state.issues
    /\ state.issues[2].assigned_to = "w2"
    /\ state.issues[2].phase = "implementing"
    /\ state.recent_checkins[1].worker = "w1"
    /\ \A d \in DOMAIN q_decisions : q_decisions[d].type # "approval_required"
    /\ col["p1"].runs = 1

----------------------------------------------------------------------------
(* The lock file at the end of a collect invocation *)

C24_Step ==
    \A p \in Procs :
        /\ InSweep(p) /\ col'[p].pc = "idle" => lock = p /\ lock' = NoLock
        /\ FailsToAcquire(p) => lock' = lock
        /\ col[p].pc = "acquire" /\ lock = NoLock /\ col'[p].pc \notin {"acquire", "killed"}
              => col'[p].pc = "load" /\ lock' = p

\* C24: a collect invocation that acquired the lock and ends, by returning or
\* by an exception raised at any step of the sweep, has deleted the lock file,
\* and the next invocation acquires the lock; the lock file exists only while
\* its owner is in the sweep (or after its owner was killed, which is no
\* error raised in the sweep); an invocation that fails to acquire the lock
\* leaves the holder's lock file in place.
C24_LockReleased ==
    /\ [](lock # NoLock => InSweep(lock) \/ col[lock].pc = "killed")
    /\ [][C24_Step]_vars

\* A sweep wrote state.yaml and was interrupted before it archived a checkin;
\* it released the lock, and the first invocation of the other process is in
\* its sweep, holding the lock.
C24_Witness ==
    \E p, o \in Procs :
        /\ p # o
        /\ col[p].pc = "idle" /\ col[p].rc = 1 /\ col[p].runs >= 1
        /\ col[o].runs = 1 /\ col[o].pc = "pass1" /\ lock = o
        /\ state.recent_checkins # <<>>
        /\ a_checkins = <<>>

----------------------------------------------------------------------------
(* Supervise sweeps with a worker listed twice in config.yaml *)

\* The operator has listed w1 twice under workers (the loop of lines
\* 1559-1571 keeps every valid entry of the list).
InitRepeated ==
    /\ config = [default_config_yaml EXCEPT !.workers = <<"w1", "w1", "w2">>]
    /\ lock = NoLock
    /\ q_checkins = <<>>
    /\ a_checkins = <<>>
    /\ q_decisions = <<>>
    /\ a_decisions = <<>>
    /\ orders = <<>>
    /\ state = default_state_yaml
    /\ col = [p \in Procs |-> ColIdle]
    /\ chk = [c \in Procs |-> ChkIdle]
    /\ sup = SupIdle
    /\ now = 1
    /\ aw_old = Absent
    /\ aw_target = Absent
    /\ aw = [w \in Writers |-> AwIdle]

SpecRepeated == InitRepeated /\ [][NextSup]_vars

C28_Step ==
    sup'.runs = sup.runs + 1 =>
        /\ \A o \in NewOrders :
              /\ orders'[o].worker \notin busy_workers(state)
              /\ \E i \in 1..Len(config.workers) : config.workers[i] = orders'[o].worker
        /\ \A o1, o2 \in NewOrders :
              o1 # o2 => /\ orders'[o1].worker # orders'[o2].worker
                         /\ orders'[o1].issue # orders'[o2].issue

\* C28: within one supervise sweep every Order goes to a configured worker
\* that no entry in a busy phase was assigned to when the sweep started, no
\* worker receives two Orders and no issue receives two Orders.
C28_OneToOne == [][C28_Step]_vars

----------------------------------------------------------------------------
(* Sweeps over a queue with a directory of an invalid name *)

\* Workers check in through the command; one file was put by hand into
\* queue/checkins/bad id/ (cmd_checkin refuses that worker id, line 1843).
NextInvalidDir ==
    \/ \E args \in ArgsCollect : cmd_checkin(args)
    \/ WriteCheckinFile([Args0("bad id", 1) EXCEPT !.needs_approval = TRUE], "w3")
    \/ CollectStep("p1")
    \/ Tick

SpecInvalidDir == InitOps /\ [][NextInvalidDir]_vars

\* A pending checkin lies in a directory whose name has a character outside
\* A-Z a-z 0-9 _ - (or no character at all).
InvalidPending ==
    \E path \in DOMAIN q_checkins : path[1] \in {"", "bad id"}

C36_Step ==
    /\ col["p1"].pc = "load" /\ col'["p1"] # col["p1"] /\ InvalidPending =>
          /\ col'["p1"].pc = "release"
          /\ col'["p1"].rc = 1
          /\ UNCHANGED <<state, q_checkins, a_checkins, q_decisions, a_decisions>>
    /\ col["p1"].pc = "release" /\ col'["p1"] # col["p1"] =>
          /\ col'["p1"].pc = "idle"
          /\ col'["p1"].rc = col["p1"].rc
          /\ UNCHANGED <<state, q_checkins, a_checkins, q_decisions, a_decisions>>

\* C36: a sweep that finds a pending checkin in a directory of an invalid
\* name ends its load step with an error and goes straight to the release
\* of the lock and exit code 1: state.yaml, the decision queue and archive
\* and the checkin queue and archive are as they were when the sweep started,
\* the valid checkins of other workers still pending.
C36_InvalidDirFailsBeforeMutation == [][C36_Step]_vars

\* A first sweep consumed a checkin of w1; the second found the file in
\* "bad id" next to a new checkin of w2 and failed: both are still pending
\* and w2's request has no Decision.
C36_Witness ==
    /\ col["p1"].pc = "idle" /\ col["p1"].rc = 1 /\ col["p1"].runs = 2
    /\ \E k \in DOMAIN a_checkins : k[1] = "w1"
    /\ \E path \in DOMAIN q_checkins : path[1] = "bad id"
    /\ \E path \in DOMAIN q_checkins : path[1] = "w2"
    /\ \A d \in DOMAIN q_decisions : q_decisions[d].worker # "w2"
    /\ 1 \in DOMAIN state.issues /\ state.issues[1].assigned_to = "w1"

----------------------------------------------------------------------------
(* Answers addressed to Decisions of every kind *)

\* w1 asks for research on issue 1, w3 reports an ordinary blocker on issue
\* 2 and asks approval for issue 3; w2 answers DEC-1-1-001 from issue 1 and
\* from issue 2, and answers DEC-1-2-001 and DEC-1-3-001, which exist once a
\* sweep of second 1 has filed the requests of w3 (and not before).
ArgsTarget ==
    {[Args0("w1", 1) EXCEPT !.blocker = <<Question>>],
     [Args0("w3", 2) EXCEPT !.blocker = <<[marker |-> "", text |-> "stuck"]>>],
     [Args0("w3", 3) EXCEPT !.needs_approval = TRUE],
     [Args0("w2", 1) EXCEPT !.respond_to = <<1, 1, 1>>, !.summary = "use v2"],
     [Args0("w2", 2) EXCEPT !.respond_to = <<1, 1, 1>>, !.summary = "use v2"],
     [Args0("w2", 2) EXCEPT !.respond_to = <<1, 2, 1>>, !.summary = "use v2"],
     [Args0("w2", 3) EXCEPT !.respond_to = <<1, 3, 1>>, !.summary = "use v2"]}

NextTarget ==
    \/ \E args \in ArgsTarget : cmd_checkin(args)
    \/ CollectStep("p1")
    \/ Tick

SpecTarget == InitOps /\ [][NextTarget]_vars

\* A Decision that a respond_to checkin of that issue may answer.
Answerable(d, issue) ==
    /\ d.type = "blocker"
    /\ d.category = "research"
    /\ d.issue = 0 \/ d.issue = issue

\* The Decisions of queue and archive that carry the id.
Named(id) == {f \in DecisionFiles : DecisionIdOf(f) = id}

DecisionAt(f) == IF f[1] = "queue" THEN q_decisions[f[2]] ELSE a_decisions[f[2]]

C37_Step ==
    /\ col["p1"].pc = "pass2"
    /\ col'["p1"] # col["p1"]
    /\ col["p1"].items[col["p1"].idx].checkin.respond_to # NoId
    => LET it == col["p1"].items[col["p1"].idx]
           id == it.checkin.respond_to
           rejected == col'["p1"].pc = "release" /\ col'["p1"].rc = 1
       IN  /\ (\A f \in Named(id) : ~Answerable(DecisionAt(f), it.issue)) =>
                 /\ rejected
                 /\ UNCHANGED <<q_decisions, a_decisions>>
           /\ (\E f \in Named(id) : Answerable(DecisionAt(f), it.issue)) =>
                 /\ ~rejected
                 /\ \E n \in DOMAIN a_decisions' :
                       /\ a_decisions'[n].decision_id = id
                       /\ \E i \in 1..Len(a_decisions'[n].responses) :
                             a_decisions'[n].responses[i].checkin_id
                                 = it.checkin.checkin_id
           /\ rejected => UNCHANGED <<q_decisions, a_decisions>>
           /\ \A d \in DOMAIN q_decisions :
                 q_decisions[d].decision_id # id =>
                     d \in DOMAIN q_decisions' /\ q_decisions'[d] = q_decisions[d]
           /\ \A n \in DOMAIN a_decisions :
                 a_decisions[n].decision_id # id =>
                     n \in DOMAIN a_decisions' /\ a_decisions'[n] = a_decisions[n]

\* C37: pass 2 records the response of a respond_to checkin when the id names
\* a blocker Decision of category research whose issue is the checkin's (or
\* that has no issue), and that Decision is then in the archive with the
\* response; when the id names a Decision of another type, another
\* category or another issue, or no Decision, the sweep ends with an error
\* and the decision queue and archive are unchanged; no other Decision is
\* touched either way.
C37_OnlyResearchBlockersAnswered == [][C37_Step]_vars

\* The answer of w2 from issue 1 was applied in a first sweep; a second
\* sweep rejected an answer that w2 sent from an issue other than 1, and the
\* archived Decision holds the first answer only.
C37_Witness ==
    /\ col["p1"].pc = "idle" /\ col["p1"].rc = 1 /\ col["p1"].runs = 2
    /\ \E path \in DOMAIN q_checkins :
          /\ q_checkins[path].respond_to = <<1, 1, 1>>
          /\ q_checkins[path].issue = 2
    /\ DOMAIN a_decisions = {<<<<1, 1, 1>>, 0>>}
    /\ Len(a_decisions[<<<<1, 1, 1>>, 0>>].responses) = 1
    /\ a_decisions[<<<<1, 1, 1>>, 0>>].responses[1].checkin_id = <<"w2", 1, 1>>
    /\ q_decisions = <<>>

----------------------------------------------------------------------------
(* Glob patterns of a contract against the changed files of a checkin *)

MaxPathLen == 4

MaxPatLen == 3

\* Issue 1 is assigned to w1 under a contract with one allowed_files
\* pattern, and w1 has checked in with one changed file; the sweep applies
\* match_any_glob(file, allowed_files) at line 1089.
InitGlob ==
    /\ now = 1
    /\ \E pat \in SeqsUpTo({"a", "b", "*", "**"}, MaxPatLen) \ {<<>>} :
          state = [default_state_yaml EXCEPT
                      !.issues = 1 :> [Entry0 EXCEPT
                          !.assigned_to = "w1", !.phase = "estimating",
                          !.progress_percent = 0, !.allowed_files = {pat},
                          !.forbidden_files = ForbiddenFiles, !.worktree = 1]]
    /\ \E path \in SeqsUpTo({"a", "b", "x", "y"}, MaxPathLen) \ {<<>>} :
          q_checkins = (<<"w1", 1>> :>
              checkin_obj([Args0("w1", 1) EXCEPT !.files_changed = {path}]))
    /\ lock = NoLock
    /\ a_checkins = <<>>
    /\ q_decisions = <<>>
    /\ a_decisions = <<>>
    /\ orders = <<>>
    /\ config = default_config_yaml
    /\ col = [p \in Procs |-> ColIdle]
    /\ chk = [c \in Procs |-> ChkIdle]
    /\ sup = SupIdle
    /\ aw_old = Absent
    /\ aw_target = Absent
    /\ aw = [w \in Writers |-> AwIdle]

NextGlob == CollectStep("p1")

SpecGlob == InitGlob /\ [][NextGlob]_vars

\* The number of path segments that the first j pattern segments take when
\* pattern segment k takes f[k] of them.
RECURSIVE Taken(_, _)
Taken(f, j) == IF j = 0 THEN 0 ELSE f[j] + Taken(f, j - 1)

\* The pattern matches the path: the path can be cut into one piece per
\* pattern segment, a piece of any length (none included) for "**" and a
\* piece of one segment, equal to the pattern segment or under "*", for
\* every other one.
GlobMatches(path, pat) ==
    \E f \in [1..Len(pat) -> 0..Len(path)] :
        /\ Taken(f, Len(pat)) = Len(path)
        /\ \A j \in 1..Len(pat) :
              pat[j] # "**" =>
                  /\ f[j] = 1
                  /\ pat[j] = "*" \/ pat[j] = path[Taken(f, j - 1) + 1]

\* The file and the pattern of the sweep, and what the sweep found: the
\* file is inside allowed_files when pass 1 filed no contract_expansion.
SweptPath == CHOOSE f \in col["p1"].items[1].checkin.files_changed : TRUE

SweptPattern == CHOOSE pat \in col["p1"].st.issues[1].allowed_files : TRUE

FoundInside ==
    \A d \in DOMAIN q_decisions : q_decisions[d].type # "contract_expansion"

\* C39: when pass 1 has compared the changed file with the pattern, the file
\* was found inside the contract exactly when the pattern matches it with
\* "**" standing for zero or more whole segments and every other pattern
\* segment for one segment; so a/**/b admits the paths from a to b of two
\* segments or more (a/b, a/x/b, a/x/y/b) and not a/x, a pattern ending in
\* its only "**" admits every path under its prefix and the prefix itself,
\* and a pattern without "**" admits paths of its own length only.
C39_GlobstarSegments ==
    col["p1"].pc \in {"pass2", "write", "archive"} =>
        LET path == SweptPath
            pat == SweptPattern
            n == Len(pat)
        IN  /\ FoundInside <=> GlobMatches(path, pat)
            /\ pat = <<"a", "**", "b">> =>
                  (FoundInside <=> /\ Len(path) >= 2
                                   /\ path[1] = "a"
                                   /\ path[Len(path)] = "b")
            /\ pat[n] = "**" /\ (\A j \in 1..(n - 1) : pat[j] \notin {"*", "**"}) =>
                  (FoundInside <=> /\ Len(path) >= n - 1
                                   /\ SubSeq(path, 1, n - 1) = SubSeq(pat, 1, n - 1))
            /\ (\A j \in 1..n : pat[j] # "**") /\ FoundInside => Len(path) = n

\* The sweep compared a/x/y/b with a/**/b and filed no Decision.
C39_Witness ==
    /\ col["p1"].pc = "write"
    /\ SweptPattern = <<"a", "**", "b">>
    /\ SweptPath = <<"a", "x", "y", "b">>
    /\ q_decisions = <<>>
    /\ state.issues[1].last_checkin = NoCid
    /\ col["p1"].st.issues[1].last_checkin = <<"w1", 1, 1>>
    /\ col["p1"].st.issues[1].phase = "implementing"

====
